---- MODULE Spec2Model ----
(***************************************************************************)
(* Model of chromascope's AudioPipeline (src/src/chromascope/pipeline.py): *)
(* the process() state machine, its content-addressed manifest cache, and  *)
(* the parts of the decomposer, analyzer, polisher and exporter that       *)
(* decide what a manifest contains.                                        *)
(*                                                                         *)
(* Numbers with a fractional part are fixed-point integers in units of     *)
(* 10^-5 (bpm 123.45678 is 12345678).  Digests (sha256, md5) are taken to  *)
(* be collision free: a digest is its tagged pre-image.                    *)
(***************************************************************************)
EXTENDS Integers, Sequences, FiniteSets, TLC

\* the pipelines, the audio file, the cache directory and the calls in flight
VARIABLES pipe, audio, cache, origin, outfile, pc, args, loc, trace, cleared

\* a polisher, an exporter or an analyzer taken alone: the instance, the
\* arguments of the call made on it and what the call returned
VARIABLES polisher, signal, output

vars == <<pipe, audio, cache, origin, outfile, pc, args, loc, trace, cleared,
          polisher, signal, output>>

\* ------------------------------------------------------------------ bounds
\* longest prefix an interrupted or damaged cache file can be left with
MaxPartial == 1
\* number of writes in which json.dump's text reaches the cache file
MaxWrites == 3
\* longest feature array handed to the polisher
MaxFrames == 4
\* longest signal handed to the analyzer's band extraction, in samples
MaxSamples == 8

\* ------------------------------------------------------- program constants
NoneFps == 0
DefaultFps == 60
DefaultSampleRate == 22050
DefaultPrecision == 4
\* decimals of the fixed-point numbers: one more than the exporter keeps
FixedScale == DefaultPrecision + 1

ANALYSIS_VERSION == "1.1"

Procs == {1, 2}

\* EnvelopeParams as <<attack_ms, release_ms>>; <<>> is None
NoEnvelope == <<>>
DefaultImpact == <<0, 200>>
DefaultEnergy == <<50, 300>>

\* ------------------------------------------------------------- test inputs
\* contents the audio file can have: a decodable recording and bytes the
\* decoder rejects
GoodAudio == {"A"}
AudioContents == GoodAudio \cup {"bad"}

\* samples of the recording at DefaultSampleRate (0.05 s), and its tempo
\* (123.45678 bpm)
NativeSamples(c) == IF c = "A" THEN 1102 ELSE 0
RawBpm(c) == IF c = "A" THEN 12345678 ELSE 0

DefaultArgs ==
    [target_fps |-> DefaultFps, sample_rate |-> DefaultSampleRate,
     hpss_margin |-> <<1, 1>>, impact_envelope |-> NoEnvelope,
     energy_envelope |-> NoEnvelope]

\* constructor arguments tried for the second pipeline: the defaults and
\* every single-parameter departure from them
ArgChoices ==
    { DefaultArgs,
      [DefaultArgs EXCEPT !.target_fps = 30],
      [DefaultArgs EXCEPT !.target_fps = NoneFps],
      [DefaultArgs EXCEPT !.sample_rate = 44100],
      [DefaultArgs EXCEPT !.hpss_margin = <<2, 1>>],
      [DefaultArgs EXCEPT !.impact_envelope = <<100, 200>>],
      [DefaultArgs EXCEPT !.impact_envelope = <<0, 500>>],
      [DefaultArgs EXCEPT !.energy_envelope = <<0, 300>>],
      [DefaultArgs EXCEPT !.energy_envelope = <<50, 500>>] }

\* ------------------------------------------------------------ construction
\* SignalPolisher.__init__: a missing envelope gets the preset
SignalPolisher__init__(fps, impact_envelope, energy_envelope, adaptive_envelopes) ==
    [fps |-> fps,
     impact_envelope |-> IF impact_envelope = NoEnvelope THEN DefaultImpact
                         ELSE impact_envelope,
     energy_envelope |-> IF energy_envelope = NoEnvelope THEN DefaultEnergy
                         ELSE energy_envelope,
     adaptive_envelopes |-> adaptive_envelopes]

ManifestExporter__init__(precision) == [precision |-> precision]

\* AudioPipeline.__init__: only the pipeline's own target_fps is defaulted;
\* the analyzer and the polisher receive the argument as given
AudioPipeline__init__(a) ==
    [target_fps |-> IF a.target_fps = NoneFps THEN DefaultFps ELSE a.target_fps,
     sample_rate |-> a.sample_rate,
     decomposer |-> [margin |-> a.hpss_margin],
     analyzer |-> [target_fps |-> a.target_fps],
     polisher |-> SignalPolisher__init__(a.target_fps, a.impact_envelope,
                                         a.energy_envelope, FALSE),
     exporter |-> ManifestExporter__init__(DefaultPrecision)]

\* ------------------------------------------------------------- cache names
\* hashlib digests, collision free: the tagged pre-image
Digest(kind, x) == <<kind, x>>

\* _calculate_file_hash: sha256 over the bytes of the file
_calculate_file_hash(content) == Digest("sha256", content)

\* json.dumps(config, sort_keys=True): the entries in key order; a tuple is
\* written as a list
ConfigJson(config) ==
    << <<"energy", config.energy>>, <<"fps", config.fps>>,
       <<"impact", config.impact>>, <<"margin", config.margin>>,
       <<"sr", config.sr>>, <<"version", config.version>> >>

\* _get_config_hash without the sample rate in the hashed configuration
_get_config_hash_no_sr(self) ==
    LET impact == self.polisher.impact_envelope
        energy == self.polisher.energy_envelope
        config == [version |-> ANALYSIS_VERSION,
                   fps |-> self.target_fps,
                   sr |-> DefaultSampleRate,
                   margin |-> self.decomposer.margin,
                   impact |-> impact,
                   energy |-> energy]
    IN  Digest("md5", ConfigJson(config))

_get_config_hash(self) ==
    LET impact == self.polisher.impact_envelope
        energy == self.polisher.energy_envelope
        config == [version |-> ANALYSIS_VERSION,
                   fps |-> self.target_fps,
                   sr |-> self.sample_rate,
                   margin |-> self.decomposer.margin,
                   impact |-> impact,
                   energy |-> energy]
    IN  Digest("md5", ConfigJson(config))

\* _get_cache_path: manifest_<file hash>_<config hash>.json
_get_cache_path(self, content) ==
    <<"manifest", _calculate_file_hash(content), _get_config_hash(self)>>

\* ---------------------------------------------------------------- analysis
Max(a, b) == IF a >= b THEN a ELSE b

Pow10(n) == IF n <= 0 THEN 1 ELSE
            IF n = 1 THEN 10 ELSE
            IF n = 2 THEN 100 ELSE
            IF n = 3 THEN 1000 ELSE
            IF n = 4 THEN 10000 ELSE 100000

\* AudioDecomposer.decompose_file: load at the requested rate and separate;
\* the caller sees the decoder's exception for an undecodable file
CanDecode(content) == content \in GoodAudio

decompose_file(self, content, sr) ==
    LET n_samples == (NativeSamples(content) * sr) \div DefaultSampleRate
    IN  [content |-> content, sample_rate |-> sr, margin |-> self.margin,
         n_samples |-> n_samples,
         duration |-> (n_samples * Pow10(FixedScale)) \div sr]

\* FeatureAnalyzer.compute_hop_length: int(sr / target_fps); dividing by None
\* or by zero raises
CanAnalyze(self) == self.target_fps # NoneFps

\* compute_hop_length with the quotient rounded to the nearest integer
compute_hop_length_rounded(self, sr) ==
    (2 * sr + self.target_fps) \div (2 * self.target_fps)

compute_hop_length(self, sr) == sr \div self.target_fps

\* FeatureAnalyzer.analyze
analyze(self, decomposed) ==
    LET hop_length == compute_hop_length(self, decomposed.sample_rate)
    IN  [content |-> decomposed.content, margin |-> decomposed.margin,
         sample_rate |-> decomposed.sample_rate,
         hop_length |-> hop_length,
         n_frames |-> (decomposed.n_samples \div hop_length) + 1,
         bpm |-> RawBpm(decomposed.content)]

\* SignalPolisher._ms_to_frames: max(1, int(ms / 1000 * fps)), the time
\* given in hundredths of a millisecond
_ms_to_frames(self, centi_ms) == Max(1, (centi_ms * self.fps) \div 100000)

\* polish, lines 248-264: the release time the adaptive envelopes smooth
\* with, in hundredths of a millisecond: release_ms * 120 / max(bpm, 1) with
\* the factor clipped to [0.5, 2.0]; a missing or zero bpm counts as 120
ScaledRelease(self, release_ms, bpm) ==
    LET b == IF bpm = 0 THEN 12000 ELSE Max(bpm \div 1000, 100)
    IN  IF ~self.adaptive_envelopes THEN release_ms * 100
        ELSE IF b > 24000 THEN release_ms * 50
        ELSE IF b < 6000 THEN release_ms * 200
        ELSE (release_ms * 1200000) \div b

\* SignalPolisher.polish: what the polished streams depend on, i.e. the
\* analysed material and the attack/release frame counts of each envelope
polish(self, features) ==
    LET env(e) == <<_ms_to_frames(self, e[1] * 100),
                    _ms_to_frames(self, ScaledRelease(self, e[2], features.bpm))>>
    IN  [content |-> features.content, margin |-> features.margin,
         sample_rate |-> features.sample_rate,
         hop_length |-> features.hop_length,
         impact |-> env(self.impact_envelope),
         energy |-> env(self.energy_envelope),
         n_frames |-> features.n_frames,
         fps |-> self.fps]

\* ManifestExporter._round: round to `precision` decimals, ties to even
_round(self, value) ==
    LET unit == Pow10(FixedScale - self.precision)
        q == value \div unit
        r == value % unit
        up == (2 * r > unit) \/ (2 * r = unit /\ q % 2 = 1)
    IN  IF up THEN (q + 1) * unit ELSE q * unit

\* ManifestExporter._build_frame
_build_frame(self, index, polished) ==
    [frame_index |-> index,
     drivers |-> [content |-> polished.content, margin |-> polished.margin,
                  sample_rate |-> polished.sample_rate,
                  hop_length |-> polished.hop_length,
                  impact |-> polished.impact, energy |-> polished.energy,
                  precision |-> self.precision]]

\* build_manifest numbering its frames from one
build_manifest_one_based(self, polished, bpm, duration) ==
    [metadata |-> [bpm |-> _round(self, bpm),
                   duration |-> _round(self, duration),
                   fps |-> polished.fps,
                   n_frames |-> polished.n_frames,
                   version |-> "1.1",
                   schema_version |-> "1.1"],
     frames |-> [i \in 1..polished.n_frames |-> _build_frame(self, i, polished)]]

\* ManifestExporter.build_manifest (to_dict is an alias)
build_manifest(self, polished, bpm, duration) ==
    [metadata |-> [bpm |-> _round(self, bpm),
                   duration |-> _round(self, duration),
                   fps |-> polished.fps,
                   n_frames |-> polished.n_frames,
                   version |-> "1.1",
                   schema_version |-> "1.1"],
     frames |-> [i \in 1..polished.n_frames |-> _build_frame(self, i - 1, polished)]]

\* export_numpy: the archive of the polished arrays
export_numpy(polished) == [kind |-> "npz", arrays |-> polished]

\* --------------------------------------------------------------- JSON files
\* json.dump(manifest): the text as a sequence of tokens, in insertion order
json_dump(m) ==
    << <<"open">>, <<"bpm", m.metadata.bpm>>, <<"duration", m.metadata.duration>>,
       <<"fps", m.metadata.fps>>, <<"n_frames", m.metadata.n_frames>>,
       <<"version", m.metadata.version>>,
       <<"schema_version", m.metadata.schema_version>> >>
    \o [i \in 1..Len(m.frames) |-> <<"frame", m.frames[i]>>]
    \o << <<"close">> >>

\* the cached text can be loaded and read by the hit path (json.load and the
\* metadata look-ups of lines 202-215) when it is complete: the opening token,
\* the six metadata entries, the frames and the closing token, with no
\* unwritten stretch in between
CanParse(text) ==
    /\ Len(text) > 7
    /\ text[1][1] = "open"
    /\ text[Len(text)][1] = "close"
    /\ \A i \in 2..(Len(text) - 1) :
           text[i][1] = (IF i > 7 THEN "frame"
                         ELSE <<"bpm", "duration", "fps", "n_frames", "version",
                                "schema_version">>[i - 1])

\* json.load with the bpm taken from the duration entry
json_load_swapped(text) ==
    [metadata |-> [bpm |-> text[3][2], duration |-> text[3][2],
                   fps |-> text[4][2], n_frames |-> text[5][2],
                   version |-> text[6][2], schema_version |-> text[7][2]],
     frames |-> [i \in 1..(Len(text) - 8) |-> text[7 + i][2]]]

json_load(text) ==
    [metadata |-> [bpm |-> text[2][2], duration |-> text[3][2],
                   fps |-> text[4][2], n_frames |-> text[5][2],
                   version |-> text[6][2], schema_version |-> text[7][2]],
     frames |-> [i \in 1..(Len(text) - 8) |-> text[7 + i][2]]]

\* what a damaged or half-written file holds: a proper prefix of the text
Prefixes(text) ==
    { SubSeq(text, 1, k) : k \in 0..(IF MaxPartial < Len(text) - 1
                                     THEN MaxPartial ELSE Len(text) - 1) }

\* ------------------------------------------------------------ process state
Null == <<>>
NoFile == [kind |-> "absent"]

IdleArgs == [output_path |-> "none", format |-> "json", use_cache |-> TRUE]

IdleLoc ==
    [cache_path |-> Null, decomposed |-> Null, features |-> Null,
     polished |-> Null, manifest |-> Null, result |-> Null,
     error |-> "", cache0 |-> Null, wfault |-> FALSE, written |-> 0]

Idle == \A p \in Procs : pc[p] = "idle"

\* output paths a caller can pass: none, a writable one, one that cannot be
\* opened for writing
OutputPaths == {"none", "out", "unwritable"}
Formats == {"json", "numpy"}

Init ==
    /\ \E a \in ArgChoices :
         pipe = [p \in Procs |-> IF p = 1 THEN AudioPipeline__init__(DefaultArgs)
                                 ELSE AudioPipeline__init__(a)]
    /\ audio \in AudioContents
    /\ cache = <<>>
    /\ origin = <<>>
    /\ outfile = NoFile
    /\ pc = [p \in Procs |-> "idle"]
    /\ args = [p \in Procs |-> IdleArgs]
    /\ loc = [p \in Procs |-> IdleLoc]
    /\ trace = [p \in Procs |-> <<>>]
    /\ cleared = FALSE
    /\ polisher = Null /\ signal = Null /\ output = Null

\* the cache directory as a function from file name to text
Exists(path) == path \in DOMAIN cache

\* a write that leaves a file that is already there as it is
WriteFile_new_only(dir, path, text) ==
    [f \in DOMAIN dir \cup {path} |-> IF f \in DOMAIN dir THEN dir[f] ELSE text]

\* open(path, "w") and the write: the file is created or replaced
WriteFile(dir, path, text) ==
    [f \in DOMAIN dir \cup {path} |-> IF f = path THEN text ELSE dir[f]]

Forget(dir, path) == [f \in DOMAIN dir \ {path} |-> dir[f]]

Goto(p, label) == pc' = [pc EXCEPT ![p] = label]
Log(p, event) == trace' = [trace EXCEPT ![p] = Append(@, event)]

\* events of a call
Has(p, event) == \E i \in 1..Len(trace[p]) : trace[p][i] = event

\* process() entry that looks the cache up whatever use_cache says
Start_always_cached(p, out, fmt, uc) ==
    /\ Idle
    /\ out = "none" => fmt = "json"
    /\ args' = [args EXCEPT ![p] = [output_path |-> out, format |-> fmt,
                                    use_cache |-> uc]]
    /\ loc' = [loc EXCEPT ![p] = [IdleLoc EXCEPT !.cache0 = cache]]
    /\ trace' = [trace EXCEPT ![p] = <<>>]
    /\ Goto(p, "lookup")
    /\ UNCHANGED <<pipe, audio, cache, origin, outfile>>
    /\ UNCHANGED <<cleared, polisher, signal, output>>

\* process(), entry: a call starts when no other call is running
Start(p, out, fmt, uc) ==
    /\ Idle
    /\ out = "none" => fmt = "json"
    /\ args' = [args EXCEPT ![p] = [output_path |-> out, format |-> fmt,
                                    use_cache |-> uc]]
    /\ loc' = [loc EXCEPT ![p] = [IdleLoc EXCEPT !.cache0 = cache]]
    /\ trace' = [trace EXCEPT ![p] = <<>>]
    /\ Goto(p, IF uc THEN "lookup" ELSE "decompose")
    /\ UNCHANGED <<pipe, audio, cache, origin, outfile>>
    /\ UNCHANGED <<cleared, polisher, signal, output>>

\* lines 199-201: name the cache file and see whether it exists
Lookup(p) ==
    /\ pc[p] = "lookup"
    /\ LET cache_path == _get_cache_path(pipe[p], audio)
       IN  /\ loc' = [loc EXCEPT ![p].cache_path = cache_path]
           /\ IF Exists(cache_path)
              THEN Goto(p, "cache_read") /\ UNCHANGED trace
              ELSE Goto(p, "decompose") /\ Log(p, "miss")
    /\ UNCHANGED <<pipe, audio, cache, origin, outfile, args>>
    /\ UNCHANGED <<cleared, polisher, signal, output>>

\* the result dictionary of a cache hit (lines 206-215)
HitResult(self, manifest) ==
    [manifest |-> manifest,
     bpm |-> manifest.metadata.bpm,
     duration |-> manifest.metadata.duration,
     n_frames |-> manifest.metadata.n_frames,
     fps |-> self.target_fps,
     output_path |-> "none"]

\* CacheRead with the exception of a failed load escaping to the caller
CacheRead_raising(p) ==
    /\ pc[p] = "cache_read"
    /\ LET path == loc[p].cache_path
           ok == Exists(path) /\ CanParse(cache[path])
       IN  IF ok
           THEN LET manifest == json_load(cache[path])
                IN  /\ loc' = [loc EXCEPT ![p].manifest = manifest,
                                          ![p].result = HitResult(pipe[p], manifest)]
                    /\ Log(p, "hit")
                    /\ Goto(p, IF args[p].output_path = "none" THEN "done"
                               ELSE "hit_export")
           ELSE /\ Log(p, "cache_error")
                /\ Goto(p, "raised")
                /\ loc' = [loc EXCEPT ![p].error = "JSONDecodeError"]
    /\ UNCHANGED <<pipe, audio, cache, origin, outfile, args>>
    /\ UNCHANGED <<cleared, polisher, signal, output>>

\* lines 202-215: load the cached manifest; any exception falls through to
\* the analysis
CacheRead(p) ==
    /\ pc[p] = "cache_read"
    /\ LET path == loc[p].cache_path
           ok == Exists(path) /\ CanParse(cache[path])
       IN  IF ok
           THEN LET manifest == json_load(cache[path])
                IN  /\ loc' = [loc EXCEPT ![p].manifest = manifest,
                                          ![p].result = HitResult(pipe[p], manifest)]
                    /\ Log(p, "hit")
                    /\ Goto(p, IF args[p].output_path = "none" THEN "done"
                               ELSE "hit_export")
           ELSE /\ Log(p, "cache_error")
                /\ Goto(p, "decompose")
                /\ UNCHANGED loc
    /\ UNCHANGED <<pipe, audio, cache, origin, outfile, args>>
    /\ UNCHANGED <<cleared, polisher, signal, output>>

\* HitExport without the output_path entry in the result
HitExport_no_path(p) ==
    /\ pc[p] = "hit_export"
    /\ IF args[p].output_path = "out"
       THEN /\ outfile' = [kind |-> "json", text |-> json_dump(loc[p].manifest)]
            /\ UNCHANGED loc
            /\ Log(p, "hit_export")
            /\ Goto(p, "done")
       ELSE /\ Log(p, "hit_export_error")
            /\ Goto(p, "decompose")
            /\ UNCHANGED <<outfile, loc>>
    /\ UNCHANGED <<pipe, audio, cache, origin, args>>
    /\ UNCHANGED <<cleared, polisher, signal, output>>

\* lines 217-226: write the cached manifest to output_path, as JSON whatever
\* the format; a failure to write is caught with the cache errors
HitExport(p) ==
    /\ pc[p] = "hit_export"
    /\ IF args[p].output_path = "out"
       THEN /\ outfile' = [kind |-> "json", text |-> json_dump(loc[p].manifest)]
            /\ loc' = [loc EXCEPT ![p].result.output_path = "out"]
            /\ Log(p, "hit_export")
            /\ Goto(p, "done")
       ELSE /\ Log(p, "hit_export_error")
            /\ Goto(p, "decompose")
            /\ UNCHANGED <<outfile, loc>>
    /\ UNCHANGED <<pipe, audio, cache, origin, args>>
    /\ UNCHANGED <<cleared, polisher, signal, output>>

\* Decompose with the decoder's exception swallowed: the call ends without a result
Decompose_swallowing(p) ==
    /\ pc[p] = "decompose"
    /\ Log(p, "decompose")
    /\ IF CanDecode(audio)
       THEN /\ loc' = [loc EXCEPT ![p].decomposed =
                          decompose_file(pipe[p].decomposer, audio, pipe[p].sample_rate)]
            /\ Goto(p, "analyze")
       ELSE /\ Goto(p, "done")
            /\ UNCHANGED loc
    /\ UNCHANGED <<pipe, audio, cache, origin, outfile, args>>
    /\ UNCHANGED <<cleared, polisher, signal, output>>

\* line 229, Phase A: decompose reads the audio file as it is now; a file the
\* decoder rejects raises to the caller
Decompose(p) ==
    /\ pc[p] = "decompose"
    /\ Log(p, "decompose")
    /\ IF CanDecode(audio)
       THEN /\ loc' = [loc EXCEPT ![p].decomposed =
                          decompose_file(pipe[p].decomposer, audio, pipe[p].sample_rate)]
            /\ Goto(p, "analyze")
       ELSE /\ Goto(p, "raised")
            /\ loc' = [loc EXCEPT ![p].error = "DecodeError"]
    /\ UNCHANGED <<pipe, audio, cache, origin, outfile, args>>
    /\ UNCHANGED <<cleared, polisher, signal, output>>

\* line 232, Phase B
Analyze(p) ==
    /\ pc[p] = "analyze"
    /\ Log(p, "analyze")
    /\ IF CanAnalyze(pipe[p].analyzer)
       THEN /\ loc' = [loc EXCEPT ![p].features =
                          analyze(pipe[p].analyzer, loc[p].decomposed)]
            /\ Goto(p, "polish")
       ELSE /\ Goto(p, "raised")
            /\ loc' = [loc EXCEPT ![p].error = "TypeError"]
    /\ UNCHANGED <<pipe, audio, cache, origin, outfile, args>>
    /\ UNCHANGED <<cleared, polisher, signal, output>>

\* line 235, Phase C
Polish(p) ==
    /\ pc[p] = "polish"
    /\ Log(p, "polish")
    /\ loc' = [loc EXCEPT ![p].polished = polish(pipe[p].polisher, loc[p].features)]
    /\ Goto(p, "build")
    /\ UNCHANGED <<pipe, audio, cache, origin, outfile, args>>
    /\ UNCHANGED <<cleared, polisher, signal, output>>

\* lines 238-242: the manifest dictionary
BuildManifest(p) ==
    /\ pc[p] = "build"
    /\ Log(p, "build_manifest")
    /\ loc' = [loc EXCEPT ![p].manifest =
                  build_manifest(pipe[p].exporter, loc[p].polished,
                                 loc[p].features.bpm, loc[p].decomposed.duration)]
    /\ Goto(p, IF args[p].use_cache THEN "cache_write" ELSE "export")
    /\ UNCHANGED <<pipe, audio, cache, origin, outfile, args>>
    /\ UNCHANGED <<cleared, polisher, signal, output>>

\* CacheWrite with the exception of a failed save escaping to the caller
CacheWrite_raising(p) ==
    /\ pc[p] = "cache_write"
    /\ Log(p, "cache_write")
    /\ LET cache_path == _get_cache_path(pipe[p], audio)
           text == json_dump(loc[p].manifest)
       IN  \/ /\ cache' = WriteFile(cache, cache_path, text)
              /\ origin' = WriteFile(origin, cache_path,
                                     [pipe |-> pipe[p], manifest |-> loc[p].manifest,
                                      healed |-> Has(p, "cache_error")])
              /\ loc' = [loc EXCEPT ![p].cache_path = cache_path]
           \/ /\ UNCHANGED <<cache, origin>>
              /\ loc' = [loc EXCEPT ![p].cache_path = cache_path,
                                    ![p].wfault = TRUE]
           \/ \E part \in Prefixes(text) :
                /\ cache' = WriteFile(cache, cache_path, part)
                /\ origin' = Forget(origin, cache_path)
                /\ loc' = [loc EXCEPT ![p].cache_path = cache_path,
                                      ![p].wfault = TRUE]
    /\ Goto(p, IF loc'[p].wfault THEN "raised" ELSE "export")
    /\ UNCHANGED <<pipe, audio, outfile, args>>
    /\ cleared' = (cleared /\ cache' = cache)
    /\ UNCHANGED <<polisher, signal, output>>

\* lines 245-251: best-effort save under the name computed now.  The write
\* succeeds, fails before the file is opened, or fails after it was opened
\* and leaves a prefix of the text; the exception is swallowed
CacheWrite(p) ==
    /\ pc[p] = "cache_write"
    /\ Log(p, "cache_write")
    /\ LET cache_path == _get_cache_path(pipe[p], audio)
           text == json_dump(loc[p].manifest)
       IN  \/ /\ cache' = WriteFile(cache, cache_path, text)
              /\ origin' = WriteFile(origin, cache_path,
                                     [pipe |-> pipe[p], manifest |-> loc[p].manifest,
                                      healed |-> Has(p, "cache_error")])
              /\ loc' = [loc EXCEPT ![p].cache_path = cache_path]
           \/ /\ UNCHANGED <<cache, origin>>
              /\ loc' = [loc EXCEPT ![p].cache_path = cache_path,
                                    ![p].wfault = TRUE]
           \/ \E part \in Prefixes(text) :
                /\ cache' = WriteFile(cache, cache_path, part)
                /\ origin' = Forget(origin, cache_path)
                /\ loc' = [loc EXCEPT ![p].cache_path = cache_path,
                                      ![p].wfault = TRUE]
    /\ Goto(p, "export")
    /\ UNCHANGED <<pipe, audio, outfile, args>>
    /\ cleared' = (cleared /\ cache' = cache)
    /\ UNCHANGED <<polisher, signal, output>>

\* the result dictionary of an analysis (lines 254-260)
MissResult(self, l) ==
    [manifest |-> l.manifest,
     bpm |-> l.features.bpm,
     duration |-> l.decomposed.duration,
     n_frames |-> l.polished.n_frames,
     fps |-> self.target_fps,
     output_path |-> "none"]

\* AudioPipeline.export: the archive for "numpy", else the JSON manifest,
\* which export_json builds again from the polished features
export(self, l, format) ==
    IF format = "numpy" THEN export_numpy(l.polished)
    ELSE [kind |-> "json",
          text |-> json_dump(build_manifest(self.exporter, l.polished,
                                            l.features.bpm, l.decomposed.duration))]

\* lines 253-272, Phase D: build the result, export when a path was given
Export(p) ==
    /\ pc[p] = "export"
    /\ LET result == MissResult(pipe[p], loc[p])
       IN  \/ /\ args[p].output_path = "none"
              /\ loc' = [loc EXCEPT ![p].result = result]
              /\ Goto(p, "done")
              /\ UNCHANGED <<outfile, trace>>
           \/ /\ args[p].output_path = "out"
              /\ outfile' = export(pipe[p], loc[p], args[p].format)
              /\ loc' = [loc EXCEPT ![p].result = [result EXCEPT !.output_path = "out"]]
              /\ Log(p, "export")
              /\ Goto(p, "done")
           \/ /\ args[p].output_path = "unwritable"
              /\ Log(p, "export_error")
              /\ Goto(p, "raised")
              /\ loc' = [loc EXCEPT ![p].error = "OSError"]
              /\ UNCHANGED outfile
    /\ UNCHANGED <<pipe, audio, cache, origin, args>>
    /\ UNCHANGED <<cleared, polisher, signal, output>>

\* no file operation of the call failed
Clean(p) ==
    /\ ~loc[p].wfault
    /\ ~Has(p, "cache_error")
    /\ ~Has(p, "hit_export_error")
    /\ ~Has(p, "export_error")

Finished(p) == pc[p] \in {"done", "raised"}

\* process() returns or raises; the output path of the next call is a new one
Return(p) ==
    /\ Finished(p)
    /\ Goto(p, "idle")
    /\ args' = [args EXCEPT ![p] = IdleArgs]
    /\ loc' = [loc EXCEPT ![p] = IdleLoc]
    /\ trace' = [trace EXCEPT ![p] = <<>>]
    /\ outfile' = NoFile
    /\ UNCHANGED <<pipe, audio, cache, origin>>
    /\ UNCHANGED <<cleared, polisher, signal, output>>

\* ------------------------------------------------------------- environment
\* the audio file is replaced by other bytes between calls
ModifyAudio(c) ==
    /\ Idle
    /\ c # audio
    /\ audio' = c
    /\ UNCHANGED <<pipe, cache, origin, outfile, pc, args, loc, trace>>
    /\ UNCHANGED <<cleared, polisher, signal, output>>

\* a cache file is damaged between calls: cut short, or overwritten by bytes
\* that are no JSON
CorruptCache(path) ==
    /\ Idle
    /\ Exists(path)
    /\ CanParse(cache[path])
    /\ \E part \in Prefixes(cache[path]) \cup {<< <<"garbage">> >>} :
         cache' = WriteFile(cache, path, part)
    /\ origin' = Forget(origin, path)
    /\ UNCHANGED <<pipe, audio, outfile, pc, args, loc, trace>>
    /\ UNCHANGED <<cleared, polisher, signal, output>>

\* a caller switches the pipeline's polisher to adaptive envelopes
\* (SignalPolisher.adaptive_envelopes)
SetAdaptive(p) ==
    /\ Idle
    /\ ~pipe[p].polisher.adaptive_envelopes
    /\ pipe' = [pipe EXCEPT ![p].polisher.adaptive_envelopes = TRUE]
    /\ UNCHANGED <<audio, cache, origin, outfile, pc, args, loc, trace>>
    /\ UNCHANGED <<cleared, polisher, signal, output>>

\* a caller gives the pipeline's exporter another precision
\* (ManifestExporter.precision)
SetPrecision(p) ==
    /\ Idle
    /\ pipe[p].exporter.precision = DefaultPrecision
    /\ pipe' = [pipe EXCEPT ![p].exporter = ManifestExporter__init__(2)]
    /\ UNCHANGED <<audio, cache, origin, outfile, pc, args, loc, trace>>
    /\ UNCHANGED <<cleared, polisher, signal, output>>

\* clear_cache with the directory left as it is
ClearCache_keeping(p) ==
    /\ Idle
    /\ cache' = cache
    /\ origin' = origin
    /\ cleared' = TRUE
    /\ UNCHANGED <<pipe, audio, outfile, pc, args, loc, trace>>
    /\ UNCHANGED <<polisher, signal, output>>

\* clear_cache, lines 108-113: the directory (which _get_cache_dir has made
\* sure exists) is removed with all it holds and created again, empty;
\* `cleared` holds from here until a file is written to the directory
ClearCache(p) ==
    /\ Idle
    /\ cache' = <<>>
    /\ origin' = <<>>
    /\ cleared' = TRUE
    /\ UNCHANGED <<pipe, audio, outfile, pc, args, loc, trace>>
    /\ UNCHANGED <<polisher, signal, output>>

Next ==
    \/ \E p \in Procs, out \in OutputPaths, fmt \in Formats, uc \in BOOLEAN :
         Start(p, out, fmt, uc)
    \/ \E p \in Procs : Lookup(p)
    \/ \E p \in Procs : CacheRead(p)
    \/ \E p \in Procs : HitExport(p)
    \/ \E p \in Procs : Decompose(p)
    \/ \E p \in Procs : Analyze(p)
    \/ \E p \in Procs : Polish(p)
    \/ \E p \in Procs : BuildManifest(p)
    \/ \E p \in Procs : CacheWrite(p)
    \/ \E p \in Procs : Export(p)
    \/ \E p \in Procs : Return(p)
    \/ \E c \in AudioContents : ModifyAudio(c)
    \/ \E p \in Procs, c \in AudioContents :
         CorruptCache(_get_cache_path(pipe[p], c))
    \/ \E p \in Procs \ {1} : SetAdaptive(p)
    \/ \E p \in Procs \ {1} : SetPrecision(p)
    \/ \E p \in Procs : ClearCache(p)

Spec == Init /\ [][Next]_vars

\* ------------------------------------------------------- concurrent calls
\* two pipelines of the same configuration, each in its own thread or
\* process, on one readable audio file and an empty cache
InitConcurrent ==
    /\ \E a \in ArgChoices :
         /\ a.target_fps # NoneFps
         /\ pipe = [p \in Procs |-> AudioPipeline__init__(a)]
    /\ audio \in GoodAudio
    /\ cache = <<>>
    /\ origin = <<>>
    /\ outfile = NoFile
    /\ pc = [p \in Procs |-> "idle"]
    /\ args = [p \in Procs |-> IdleArgs]
    /\ loc = [p \in Procs |-> IdleLoc]
    /\ trace = [p \in Procs |-> <<>>]
    /\ cleared = FALSE
    /\ polisher = Null /\ signal = Null /\ output = Null

\* process(audio_path) entered while the other call may be running
StartConcurrent(p) ==
    /\ pc[p] = "idle"
    /\ args' = [args EXCEPT ![p] = IdleArgs]
    /\ loc' = [loc EXCEPT ![p] = [IdleLoc EXCEPT !.cache0 = cache]]
    /\ trace' = [trace EXCEPT ![p] = <<>>]
    /\ Goto(p, "lookup")
    /\ UNCHANGED <<pipe, audio, cache, origin, outfile>>
    /\ UNCHANGED <<cleared, polisher, signal, output>>

\* the part of the text that the j-th write carries, and where it starts:
\* the text goes out in MaxWrites writes of equal length, the last one
\* shorter
PieceLen(text) == (Len(text) + MaxWrites - 1) \div MaxWrites
PieceStart(text, j) == (j - 1) * PieceLen(text)
Piece(text, j) ==
    SubSeq(text, PieceStart(text, j) + 1,
           IF j * PieceLen(text) < Len(text) THEN j * PieceLen(text) ELSE Len(text))

\* a file after a write of `piece` behind position `at`: a write past the end
\* leaves an unwritten stretch before it
WriteAt(text, at, piece) ==
    [i \in 1..Max(Len(text), at + Len(piece)) |->
        IF i > at /\ i <= at + Len(piece) THEN piece[i - at]
        ELSE IF i <= Len(text) THEN text[i] ELSE <<"hole">>]

\* line 248, open(cache_path, "w"): the file is created or cut to length 0
CacheOpen(p) ==
    /\ pc[p] = "cache_write"
    /\ Log(p, "cache_write")
    /\ LET cache_path == _get_cache_path(pipe[p], audio)
       IN  /\ cache' = WriteFile(cache, cache_path, <<>>)
           /\ loc' = [loc EXCEPT ![p].cache_path = cache_path,
                                 ![p].written = 0]
    /\ Goto(p, "cache_dump")
    /\ UNCHANGED <<pipe, audio, origin, outfile, args>>
    /\ UNCHANGED <<cleared, polisher, signal, output>>

\* CacheDump with every write going to the end of the file
CacheDump_appending(p) ==
    /\ pc[p] = "cache_dump"
    /\ LET path == loc[p].cache_path
           text == json_dump(loc[p].manifest)
           j == loc[p].written + 1
       IN  /\ cache' = WriteFile(cache, path, cache[path] \o Piece(text, j))
           /\ loc' = [loc EXCEPT ![p].written = j]
           /\ Goto(p, IF j * PieceLen(text) >= Len(text) THEN "export"
                      ELSE "cache_dump")
    /\ UNCHANGED <<pipe, audio, origin, outfile, args, trace>>
    /\ UNCHANGED <<cleared, polisher, signal, output>>

\* line 249, json.dump(manifest, f): the text reaches the file in several
\* writes, each at the position this writer has come to; the file is closed
\* after the last one
CacheDump(p) ==
    /\ pc[p] = "cache_dump"
    /\ LET path == loc[p].cache_path
           text == json_dump(loc[p].manifest)
           j == loc[p].written + 1
       IN  /\ cache' = WriteFile(cache, path,
                                 WriteAt(cache[path], PieceStart(text, j), Piece(text, j)))
           /\ loc' = [loc EXCEPT ![p].written = j]
           /\ Goto(p, IF j * PieceLen(text) >= Len(text) THEN "export"
                      ELSE "cache_dump")
    /\ UNCHANGED <<pipe, audio, origin, outfile, args, trace>>
    /\ UNCHANGED <<cleared, polisher, signal, output>>

NextConcurrent ==
    \/ \E p \in Procs : StartConcurrent(p)
    \/ \E p \in Procs : Lookup(p)
    \/ \E p \in Procs : CacheRead(p)
    \/ \E p \in Procs : Decompose(p)
    \/ \E p \in Procs : Analyze(p)
    \/ \E p \in Procs : Polish(p)
    \/ \E p \in Procs : BuildManifest(p)
    \/ \E p \in Procs : CacheOpen(p)
    \/ \E p \in Procs : CacheDump(p)
    \/ \E p \in Procs : Export(p)
    \/ \E p \in Procs : Return(p)

SpecConcurrent == InitConcurrent /\ [][NextConcurrent]_vars

\* ------------------------------------------- a file replaced during a call
\* two pipelines of the default configuration on a readable audio file and
\* an empty cache
InitReplace ==
    /\ pipe = [p \in Procs |-> AudioPipeline__init__(DefaultArgs)]
    /\ audio \in GoodAudio
    /\ cache = <<>>
    /\ origin = <<>>
    /\ outfile = NoFile
    /\ pc = [p \in Procs |-> "idle"]
    /\ args = [p \in Procs |-> IdleArgs]
    /\ loc = [p \in Procs |-> IdleLoc]
    /\ trace = [p \in Procs |-> <<>>]
    /\ cleared = FALSE
    /\ polisher = Null /\ signal = Null /\ output = Null

\* the audio file is replaced by other bytes at any moment, a call running
\* or not: process() holds no lock on it and reads it anew for every hash
\* (lines 200 and 247) and for the decoding (line 229)
ReplaceAudio(c) ==
    /\ c # audio
    /\ audio' = c
    /\ UNCHANGED <<pipe, cache, origin, outfile, pc, args, loc, trace>>
    /\ UNCHANGED <<cleared, polisher, signal, output>>

NextReplace ==
    \/ \E p \in Procs, out \in OutputPaths, fmt \in Formats, uc \in BOOLEAN :
         Start(p, out, fmt, uc)
    \/ \E p \in Procs : Lookup(p)
    \/ \E p \in Procs : CacheRead(p)
    \/ \E p \in Procs : HitExport(p)
    \/ \E p \in Procs : Decompose(p)
    \/ \E p \in Procs : Analyze(p)
    \/ \E p \in Procs : Polish(p)
    \/ \E p \in Procs : BuildManifest(p)
    \/ \E p \in Procs : CacheWrite(p)
    \/ \E p \in Procs : Export(p)
    \/ \E p \in Procs : Return(p)
    \/ \E c \in AudioContents : ReplaceAudio(c)

SpecReplace == InitReplace /\ [][NextReplace]_vars

\* ------------------------------------------------------ the polisher alone
\* The polisher's arrays hold exact fractions <<numerator, denominator>> in
\* lowest terms with a positive denominator: the arithmetic of the code
\* without the rounding of floating point.
RECURSIVE GCD(_, _)
GCD(a, b) == IF b = 0 THEN a ELSE GCD(b, a % b)

Abs(a) == IF a < 0 THEN -a ELSE a

Rat(n, d) ==
    LET g == GCD(Abs(n), Abs(d))
    IN  IF d < 0 THEN <<(-n) \div g, (-d) \div g>> ELSE <<n \div g, d \div g>>

Zero == Rat(0, 1)
One == Rat(1, 1)

LCM(a, b) == (a \div GCD(a, b)) * b

RSub(x, y) ==
    LET m == LCM(x[2], y[2])
    IN  Rat(x[1] * (m \div x[2]) - y[1] * (m \div y[2]), m)

RMul(x, y) ==
    LET g == GCD(Abs(x[1]), y[2])
        h == GCD(Abs(y[1]), x[2])
    IN  Rat((x[1] \div g) * (y[1] \div h), (x[2] \div h) * (y[2] \div g))

RDiv(x, y) == RMul(x, IF y[1] < 0 THEN <<-y[2], -y[1]>> ELSE <<y[2], y[1]>>)

RLess(x, y) ==
    LET m == LCM(x[2], y[2])
    IN  x[1] * (m \div x[2]) < y[1] * (m \div y[2])

RLeq(x, y) == ~RLess(y, x)

\* np.min replaced by the first element
RMin_first(arr) == arr[1]

\* np.min, np.max
RMin(arr) == CHOOSE x \in {arr[i] : i \in 1..Len(arr)} :
                 \A i \in 1..Len(arr) : RLeq(x, arr[i])

RMax(arr) == CHOOSE x \in {arr[i] : i \in 1..Len(arr)} :
                 \A i \in 1..Len(arr) : RLeq(arr[i], x)

\* np.clip(x, 0.0, 1.0)
Clip(x) == IF RLess(x, Zero) THEN Zero ELSE IF RLess(One, x) THEN One ELSE x

\* normalize with the scaling by the maximum alone
normalize_by_max(arr, floor) ==
    LET max_val == RMax(arr)
    IN  IF RLeq(max_val, Zero) THEN [i \in 1..Len(arr) |-> Zero]
        ELSE [i \in 1..Len(arr) |-> RDiv(arr[i], max_val)]

\* SignalPolisher.normalize
normalize(arr, floor) ==
    LET min_val == RMin(arr)
        max_val == RMax(arr)
        range_val == RSub(max_val, min_val)
    IN  IF RLess(range_val, floor) THEN [i \in 1..Len(arr) |-> Zero]
        ELSE [i \in 1..Len(arr) |-> Clip(RDiv(RSub(arr[i], min_val), range_val))]

\* one step of the follower with the attack never instant
EnvelopeStep_slow_attack(current, target, attack_frames, release_frames) ==
    IF RLess(current, target)
    THEN RSub(current, RMul(RSub(current, target), Rat(1, attack_frames + 1)))
    ELSE IF release_frames <= 1 THEN target
         ELSE RSub(current, RMul(RSub(current, target), Rat(1, release_frames)))

\* apply_envelope, lines 151-166: one frame of the follower
EnvelopeStep(current, target, attack_frames, release_frames) ==
    IF RLess(current, target)
    THEN IF attack_frames <= 1 THEN target
         ELSE RSub(current, RMul(RSub(current, target), Rat(1, attack_frames)))
    ELSE IF release_frames <= 1 THEN target
         ELSE RSub(current, RMul(RSub(current, target), Rat(1, release_frames)))

\* the value of `current` after frame i
RECURSIVE Follow(_, _, _, _)
Follow(arr, attack_frames, release_frames, i) ==
    IF i = 0 THEN Zero
    ELSE EnvelopeStep(Follow(arr, attack_frames, release_frames, i - 1), arr[i],
                      attack_frames, release_frames)

\* apply_envelope with the attack and the release frame counts exchanged
apply_envelope_swapped(self, arr, params) ==
    LET attack_frames == _ms_to_frames(self, params[2])
        release_frames == _ms_to_frames(self, params[1])
    IN  [i \in 1..Len(arr) |-> Clip(Follow(arr, attack_frames, release_frames, i))]

\* SignalPolisher.apply_envelope; params is <<attack, release>> in hundredths
\* of a millisecond
apply_envelope(self, arr, params) ==
    LET attack_frames == _ms_to_frames(self, params[1])
        release_frames == _ms_to_frames(self, params[2])
    IN  [i \in 1..Len(arr) |-> Clip(Follow(arr, attack_frames, release_frames, i))]

\* SignalPolisher.create_beat_array: the events below n_frames are used as
\* indices; numpy counts a negative index from the end of the array and
\* raises IndexError for one before its start
create_beat_array(n_frames, beat_frames) ==
    LET valid_beats == {b \in beat_frames : b < n_frames}
    IN  IF \E b \in valid_beats : b < -n_frames
        THEN [error |-> "IndexError", array |-> <<>>]
        ELSE [error |-> "",
              array |-> [i \in 1..n_frames |->
                            \E b \in valid_beats :
                                (IF b < 0 THEN b + n_frames ELSE b) = i - 1]]

\* SignalPolisher.create_onset_array
create_onset_array(n_frames, onset_frames) ==
    LET valid_onsets == {b \in onset_frames : b < n_frames}
    IN  IF \E b \in valid_onsets : b < -n_frames
        THEN [error |-> "IndexError", array |-> <<>>]
        ELSE [error |-> "",
              array |-> [i \in 1..n_frames |->
                            \E b \in valid_onsets :
                                (IF b < 0 THEN b + n_frames ELSE b) = i - 1]]

\* an EnvelopeParams in hundredths of a millisecond
CentiMs(env) == <<env[1] * 100, env[2] * 100>>

\* smooth_spectral_centroid: 100 Hz .. 10000 Hz onto [0,1], then the energy
\* envelope as configured
smooth_spectral_centroid(self, centroid) ==
    LET brightness == [i \in 1..Len(centroid) |->
                          Clip(RDiv(RSub(centroid[i], Rat(100, 1)), Rat(9900, 1)))]
    IN  apply_envelope(self, brightness, CentiMs(self.energy_envelope))

\* polish, lines 244-264: the envelope the streams are smoothed with
AdaptedEnvelope(self, env, bpm) ==
    <<env[1] * 100, ScaledRelease(self, env[2], bpm)>>

\* the frequency bands of the analysis: the seven bands and the three legacy
\* ones
BandNames ==
    {"sub_bass", "bass", "low_mid", "mid", "high_mid", "presence", "brilliance",
     "low", "mid_aggregate", "high"}

\* polish, lines 266-354, on the arrays themselves
PolishedFeatures(self, features) ==
    LET impact_env == AdaptedEnvelope(self, self.impact_envelope, features.bpm)
        energy_env == AdaptedEnvelope(self, self.energy_envelope, features.bpm)
        smooth(arr, env) == apply_envelope(self, normalize(arr, Rat(1, 1000)), env)
        fb == features.frequency_bands
    IN  [is_beat |-> create_beat_array(features.n_frames, features.beat_frames),
         is_onset |-> create_onset_array(features.n_frames, features.onset_frames),
         percussive_impact |-> smooth(features.rms_percussive, impact_env),
         harmonic_energy |-> smooth(features.rms_harmonic, energy_env),
         global_energy |-> smooth(features.rms, energy_env),
         spectral_flux |-> smooth(features.spectral_flux, impact_env),
         sub_bass |-> smooth(fb.sub_bass, energy_env),
         bass |-> smooth(fb.bass, energy_env),
         low_mid |-> smooth(fb.low_mid, energy_env),
         mid |-> smooth(fb.mid, energy_env),
         high_mid |-> smooth(fb.high_mid, energy_env),
         presence |-> smooth(fb.presence, energy_env),
         brilliance |-> smooth(fb.brilliance, energy_env),
         low_energy |-> smooth(fb.low, energy_env),
         mid_energy |-> smooth(fb.mid_aggregate, energy_env),
         high_energy |-> smooth(fb.high, energy_env),
         spectral_brightness |->
             smooth_spectral_centroid(self, features.spectral_centroid),
         spectral_flatness |-> smooth(features.spectral_flatness, energy_env),
         spectral_rolloff |-> smooth(features.spectral_rolloff, energy_env),
         zero_crossing_rate |-> smooth(features.zero_crossing_rate, energy_env),
         chroma |-> [r \in 1..12 |-> normalize(features.chroma[r], Rat(1, 1000))],
         n_frames |-> features.n_frames,
         fps |-> self.fps]

\* ------------------------------------------------- calls on a polisher alone
\* polishers the calls are made on: the presets at both frame rates, other
\* envelopes, and two with adaptive envelopes
PolisherChoices ==
    { SignalPolisher__init__(60, NoEnvelope, NoEnvelope, FALSE),
      SignalPolisher__init__(30, NoEnvelope, NoEnvelope, FALSE),
      SignalPolisher__init__(60, <<0, 500>>, <<40, 0>>, FALSE),
      SignalPolisher__init__(60, NoEnvelope, NoEnvelope, TRUE),
      SignalPolisher__init__(30, <<0, 500>>, <<40, 0>>, TRUE) }

\* raw values of a feature array, and the arrays of at most MaxFrames frames
RawValues == {Rat(-1, 1), Zero, Rat(1, 2), One}
Signals == UNION {[1..n -> RawValues] : n \in 1..MaxFrames}

\* beat and onset frames as the analysis could hand them over: at most two,
\* inside the array, past its end, or negative
EventSets ==
    {e \in SUBSET ((-(MaxFrames + 1))..(MaxFrames + 1)) : Cardinality(e) <= 2}

\* tempi in units of 10^-5 bpm: none, below 1, slow, 120, the recording's, fast
BpmValues ==
    {0, 50000, 100000, 4500000, 6000000, 9000000, 12000000, 12345678,
     18000000, 24000000, 30000000}

\* the arguments of the calls: an array with no events at 120 bpm, a silent
\* array with events, an impulse with a tempo
Cases ==
    {[values |-> v, beat_frames |-> {}, bpm |-> 12000000] : v \in Signals}
    \cup {[values |-> [i \in 1..n |-> Zero], beat_frames |-> e, bpm |-> 12000000] :
            n \in 1..MaxFrames, e \in EventSets}
    \cup {[values |-> <<One, Zero, Zero>>, beat_frames |-> {}, bpm |-> b] :
            b \in BpmValues}

Floors == {Rat(1, 1000), One}
MsValues == {0, 10, 16, 17, 25, 30, 40, 50, 100, 200, 300, 500}

\* the ExtractedFeatures of a case: every energy, band and tonality array
\* holds the case's values, the spectral centroid holds them in units of
\* 10100 Hz, and the onsets are the beats
ExtractedFeatures(case) ==
    [n_frames |-> Len(case.values),
     bpm |-> case.bpm,
     beat_frames |-> case.beat_frames,
     onset_frames |-> case.beat_frames,
     rms_percussive |-> case.values,
     rms_harmonic |-> case.values,
     rms |-> case.values,
     spectral_flux |-> case.values,
     frequency_bands |-> [b \in BandNames |-> case.values],
     spectral_centroid |-> [i \in 1..Len(case.values) |->
                               RMul(case.values[i], Rat(10100, 1))],
     spectral_flatness |-> case.values,
     spectral_rolloff |-> case.values,
     zero_crossing_rate |-> case.values,
     chroma |-> [r \in 1..12 |-> case.values]]

InitPolisher ==
    /\ pipe = [p \in Procs |-> AudioPipeline__init__(DefaultArgs)]
    /\ audio \in GoodAudio
    /\ cache = <<>>
    /\ origin = <<>>
    /\ outfile = NoFile
    /\ pc = [p \in Procs |-> "idle"]
    /\ args = [p \in Procs |-> IdleArgs]
    /\ loc = [p \in Procs |-> IdleLoc]
    /\ trace = [p \in Procs |-> <<>>]
    /\ cleared = FALSE
    /\ polisher \in PolisherChoices
    /\ signal \in Cases
    /\ output = [of |-> "none"]

\* each call below is made on a polisher that has not been called yet
\* polisher.normalize(signal, floor)
CallNormalize ==
    /\ output.of = "none"
    /\ \E floor \in Floors :
         output' = [of |-> "normalize", floor |-> floor,
                    value |-> normalize(signal.values, floor)]
    /\ UNCHANGED <<polisher, signal>>
    /\ UNCHANGED <<pipe, audio, cache, origin, outfile, pc, args, loc, trace, cleared>>

\* polisher.apply_envelope(signal, params) with one of the polisher's own
\* envelopes
CallApplyEnvelope ==
    /\ output.of = "none"
    /\ \E env \in {polisher.impact_envelope, polisher.energy_envelope} :
         output' = [of |-> "apply_envelope", params |-> env,
                    value |-> apply_envelope(polisher, signal.values, CentiMs(env))]
    /\ UNCHANGED <<polisher, signal>>
    /\ UNCHANGED <<pipe, audio, cache, origin, outfile, pc, args, loc, trace, cleared>>

\* polisher._ms_to_frames(ms)
CallMsToFrames ==
    /\ output.of = "none"
    /\ \E ms \in MsValues :
         output' = [of |-> "_ms_to_frames", ms |-> ms,
                    value |-> _ms_to_frames(polisher, ms * 100)]
    /\ UNCHANGED <<polisher, signal>>
    /\ UNCHANGED <<pipe, audio, cache, origin, outfile, pc, args, loc, trace, cleared>>

\* polisher.create_beat_array(n_frames, beat_frames)
CallCreateBeatArray ==
    /\ output.of = "none"
    /\ output' = [of |-> "create_beat_array",
                  value |-> create_beat_array(Len(signal.values), signal.beat_frames)]
    /\ UNCHANGED <<polisher, signal>>
    /\ UNCHANGED <<pipe, audio, cache, origin, outfile, pc, args, loc, trace, cleared>>

\* polisher.create_onset_array(n_frames, onset_frames)
CallCreateOnsetArray ==
    /\ output.of = "none"
    /\ output' = [of |-> "create_onset_array",
                  value |-> create_onset_array(Len(signal.values), signal.beat_frames)]
    /\ UNCHANGED <<polisher, signal>>
    /\ UNCHANGED <<pipe, audio, cache, origin, outfile, pc, args, loc, trace, cleared>>

\* CallPolish with the adapted envelopes stored on the polisher
CallPolish_storing ==
    /\ output.of = "none"
    /\ LET features == ExtractedFeatures(signal)
           impact_env == AdaptedEnvelope(polisher, polisher.impact_envelope, features.bpm)
           energy_env == AdaptedEnvelope(polisher, polisher.energy_envelope, features.bpm)
           polished == PolishedFeatures(polisher, features)
       IN  /\ output' =
                IF polished.is_beat.error # "" \/ polished.is_onset.error # ""
                THEN [of |-> "polish", error |-> "IndexError"]
                ELSE [of |-> "polish", error |-> "",
                      impact_env |-> impact_env, energy_env |-> energy_env,
                      value |-> polished]
           /\ polisher' = [polisher EXCEPT
                             !.impact_envelope = <<@[1], impact_env[2] \div 100>>,
                             !.energy_envelope = <<@[1], energy_env[2] \div 100>>]
    /\ UNCHANGED signal
    /\ UNCHANGED <<pipe, audio, cache, origin, outfile, pc, args, loc, trace, cleared>>

\* polisher.polish(features): the envelopes of this call are local objects;
\* an index error of the beat or onset array ends the call
CallPolish ==
    /\ output.of = "none"
    /\ LET features == ExtractedFeatures(signal)
           impact_env == AdaptedEnvelope(polisher, polisher.impact_envelope, features.bpm)
           energy_env == AdaptedEnvelope(polisher, polisher.energy_envelope, features.bpm)
           polished == PolishedFeatures(polisher, features)
       IN  /\ output' =
                IF polished.is_beat.error # "" \/ polished.is_onset.error # ""
                THEN [of |-> "polish", error |-> "IndexError"]
                ELSE [of |-> "polish", error |-> "",
                      impact_env |-> impact_env, energy_env |-> energy_env,
                      value |-> polished]
           /\ polisher' = polisher
    /\ UNCHANGED signal
    /\ UNCHANGED <<pipe, audio, cache, origin, outfile, pc, args, loc, trace, cleared>>

NextPolisher ==
    \/ CallNormalize
    \/ CallApplyEnvelope
    \/ CallMsToFrames
    \/ CallCreateBeatArray
    \/ CallCreateOnsetArray
    \/ CallPolish

SpecPolisher == InitPolisher /\ [][NextPolisher]_vars

\* ------------------------------------------------ calls on an exporter alone
\* FeatureAnalyzer.CHROMA_NAMES
CHROMA_NAMES == <<"C", "C#", "D", "D#", "E", "F", "F#", "G", "G#", "A", "A#", "B">>

\* FeatureAnalyzer.chroma_index_to_name: the index is taken modulo 12, the
\* remainder having the sign of the divisor
chroma_index_to_name(index) == CHROMA_NAMES[(index % 12) + 1]

RAdd(x, y) == RSub(x, <<-y[1], y[2]>>)

\* round(a / b) of Python for b > 0: to the nearest integer, ties to even
round_half_even(a, b) ==
    LET q == a \div b
        r == a % b
    IN  IF 2 * r > b \/ (2 * r = b /\ q % 2 = 1) THEN q + 1 ELSE q

\* ManifestExporter._round on an exact fraction
_round_fraction(self, value) ==
    Rat(round_half_even(value[1] * Pow10(self.precision), value[2]),
        Pow10(self.precision))

\* the continuous fields of a frame, in the order _build_frame writes them
FrameFields ==
    <<"percussive_impact", "harmonic_energy", "global_energy", "spectral_flux",
      "sub_bass", "bass", "low_mid", "mid", "high_mid", "presence", "brilliance",
      "low_energy", "mid_energy", "high_energy", "spectral_brightness",
      "spectral_flatness", "spectral_rolloff", "zero_crossing_rate">>

\* _compute_primitives with the texture averaged over three of its four terms
_compute_primitives_three(frame) ==
    LET dominant == frame.dominant_chroma
        chroma_index ==
            IF \E i \in DOMAIN CHROMA_NAMES : CHROMA_NAMES[i] = dominant
            THEN (CHOOSE i \in DOMAIN CHROMA_NAMES : CHROMA_NAMES[i] = dominant) - 1
            ELSE 0
        sum4 == RAdd(RAdd(frame.spectral_flatness, frame.zero_crossing_rate),
                     RAdd(frame.presence, frame.brilliance))
        sum2 == RAdd(frame.spectral_flux, frame.spectral_rolloff)
    IN  [impact |-> frame.percussive_impact,
         fluidity |-> frame.harmonic_energy,
         brightness |-> frame.spectral_brightness,
         pitch_hue |-> Rat(chroma_index, Len(CHROMA_NAMES) - 1),
         texture |-> Clip(RDiv(sum4, Rat(3, 1))),
         sharpness |-> Clip(RDiv(sum2, Rat(2, 1)))]

\* ManifestExporter._compute_primitives: a name that is not a note counts as C
_compute_primitives(frame) ==
    LET dominant == frame.dominant_chroma
        chroma_index ==
            IF \E i \in DOMAIN CHROMA_NAMES : CHROMA_NAMES[i] = dominant
            THEN (CHOOSE i \in DOMAIN CHROMA_NAMES : CHROMA_NAMES[i] = dominant) - 1
            ELSE 0
        sum4 == RAdd(RAdd(frame.spectral_flatness, frame.zero_crossing_rate),
                     RAdd(frame.presence, frame.brilliance))
        sum2 == RAdd(frame.spectral_flux, frame.spectral_rolloff)
    IN  [impact |-> frame.percussive_impact,
         fluidity |-> frame.harmonic_energy,
         brightness |-> frame.spectral_brightness,
         pitch_hue |-> Rat(chroma_index, Len(CHROMA_NAMES) - 1),
         texture |-> Clip(RDiv(sum4, Rat(4, 1))),
         sharpness |-> Clip(RDiv(sum2, Rat(2, 1)))]

\* ManifestExporter._build_frame on the arrays themselves: the fields of the
\* frame, each continuous one rounded, then the primitives computed from them
FrameDict(self, index, polished) ==
    LET chroma_idx == polished.dominant_chroma_indices[index + 1]
        frame ==
            [f \in {FrameFields[k] : k \in DOMAIN FrameFields} |->
                _round_fraction(self, polished[f][index + 1])]
            @@ [frame_index |-> index,
                time |-> _round_fraction(self, polished.frame_times[index + 1]),
                is_beat |-> polished.is_beat[index + 1],
                is_onset |-> polished.is_onset[index + 1],
                dominant_chroma |-> chroma_index_to_name(chroma_idx),
                chroma_values |->
                    [name \in {CHROMA_NAMES[i] : i \in DOMAIN CHROMA_NAMES} |->
                        LET i == CHOOSE i \in DOMAIN CHROMA_NAMES : CHROMA_NAMES[i] = name
                        IN  _round_fraction(self, polished.chroma[i][index + 1])]]
    IN  frame @@ _compute_primitives(frame)

\* ManifestExporter.to_dict, i.e. build_manifest, on the arrays themselves
to_dict(self, polished, bpm, duration) ==
    [metadata |-> [bpm |-> _round(self, bpm),
                   duration |-> _round(self, duration),
                   fps |-> polished.fps,
                   n_frames |-> polished.n_frames,
                   version |-> "1.1",
                   schema_version |-> "1.1"],
     frames |-> [i \in 1..polished.n_frames |-> FrameDict(self, i - 1, polished)]]

\* values of a polished stream: the ends of the unit interval, values that
\* rounding moves and one it moves up
UnitValues == <<Zero, Rat(1, 3), Rat(1, 2), Rat(2, 3), One, Rat(12346, 100000)>>

\* dominant chroma indices: the twelve bins' ends, and indices outside them
ChromaIndices == {-13, -1, 0, 7, 10, 12, 23}

\* polished features of two frames whose streams differ from one another:
\* stream k holds at frame j the value number k + shift + j, cyclically
PolishedChoice(shift, idx) ==
    LET value(k, j) == UnitValues[((k + shift + j) % Len(UnitValues)) + 1]
    IN  [f \in {FrameFields[k] : k \in DOMAIN FrameFields} |->
            LET k == CHOOSE k \in DOMAIN FrameFields : FrameFields[k] = f
            IN  <<value(k, 1), value(k, 2)>>]
        @@ [n_frames |-> 2,
            fps |-> DefaultFps,
            frame_times |-> <<Zero, Rat(367, DefaultSampleRate)>>,
            is_beat |-> <<TRUE, FALSE>>,
            is_onset |-> <<FALSE, TRUE>>,
            chroma |-> [r \in 1..12 |-> <<value(r, 1), value(r, 2)>>],
            dominant_chroma_indices |-> <<idx, idx + 1>>]

PolishedChoices ==
    {PolishedChoice(shift, idx) : shift \in 0..(Len(UnitValues) - 1), idx \in ChromaIndices}

InitExporter ==
    /\ pipe = [p \in Procs |-> AudioPipeline__init__(DefaultArgs)]
    /\ audio \in GoodAudio
    /\ cache = <<>>
    /\ origin = <<>>
    /\ outfile = NoFile
    /\ pc = [p \in Procs |-> "idle"]
    /\ args = [p \in Procs |-> IdleArgs]
    /\ loc = [p \in Procs |-> IdleLoc]
    /\ trace = [p \in Procs |-> <<>>]
    /\ cleared = FALSE
    /\ polisher = Null
    /\ signal \in PolishedChoices
    /\ output = [of |-> "none"]

\* pipeline.exporter.to_dict(polished, bpm, duration)
CallToDict(p) ==
    /\ output.of = "none"
    /\ output' = [of |-> "to_dict", precision |-> pipe[p].exporter.precision,
                  value |-> to_dict(pipe[p].exporter, signal, RawBpm(audio),
                                    decompose_file(pipe[p].decomposer, audio,
                                                   pipe[p].sample_rate).duration)]
    /\ UNCHANGED <<polisher, signal>>
    /\ UNCHANGED <<pipe, audio, cache, origin, outfile, pc, args, loc, trace, cleared>>

NextExporter ==
    \E p \in Procs :
        \/ SetPrecision(p)
        \/ CallToDict(p)

SpecExporter == InitExporter /\ [][NextExporter]_vars

\* ------------------------------------------------ calls on an analyzer alone
\* number of frames of librosa.feature.rms(y, hop_length) as the analyzer
\* calls it: frames of 2048 samples over the signal padded by half a frame
\* on either side
rms_frames(n_samples, hop_length) ==
    LET frame_length == 2048
        padded == n_samples + 2 * (frame_length \div 2)
    IN  1 + (padded - frame_length) \div hop_length

\* _bandpass_rms with the silent array one frame short
_bandpass_rms_short(n_samples, low_freq, high_freq, sr, hop_length) ==
    LET nyquist == Rat(sr, 2)
        low_norm == RDiv(low_freq, nyquist)
        ratio == RDiv(high_freq, nyquist)
        high_norm == IF RLess(Rat(99, 100), ratio) THEN Rat(99, 100) ELSE ratio
    IN  IF RLeq(high_norm, low_norm)
        THEN [error |-> "", filtered |-> FALSE,
              length |-> n_samples \div hop_length]
        ELSE IF ~(RLess(Zero, low_norm) /\ RLess(high_norm, One))
        THEN [error |-> "ValueError", filtered |-> FALSE, length |-> 0]
        ELSE [error |-> "", filtered |-> TRUE,
              length |-> rms_frames(n_samples, hop_length)]

\* FeatureAnalyzer._bandpass_rms on a signal of n_samples samples, the band
\* edges as fractions: zeros when the normalized edges collapse; otherwise
\* the filter design, which rejects an edge outside (0, 1), then the RMS
_bandpass_rms(n_samples, low_freq, high_freq, sr, hop_length) ==
    LET nyquist == Rat(sr, 2)
        low_norm == RDiv(low_freq, nyquist)
        ratio == RDiv(high_freq, nyquist)
        high_norm == IF RLess(Rat(99, 100), ratio) THEN Rat(99, 100) ELSE ratio
    IN  IF RLeq(high_norm, low_norm)
        THEN [error |-> "", filtered |-> FALSE,
              length |-> (n_samples \div hop_length) + 1]
        ELSE IF ~(RLess(Zero, low_norm) /\ RLess(high_norm, One))
        THEN [error |-> "ValueError", filtered |-> FALSE, length |-> 0]
        ELSE [error |-> "", filtered |-> TRUE,
              length |-> rms_frames(n_samples, hop_length)]

\* FeatureAnalyzer._extract_frequency_bands: the seven bands and the three
\* legacy ones, the top edges held 100 Hz below the Nyquist frequency
_extract_frequency_bands(n_samples, sr, hop_length) ==
    LET nyquist == Rat(sr, 2)
        below == RSub(nyquist, Rat(100, 1))
        top(hz) == IF RLess(below, Rat(hz, 1)) THEN below ELSE Rat(hz, 1)
        edges == [sub_bass |-> <<Rat(20, 1), Rat(60, 1)>>,
                  bass |-> <<Rat(60, 1), Rat(250, 1)>>,
                  low_mid |-> <<Rat(250, 1), Rat(500, 1)>>,
                  mid |-> <<Rat(500, 1), Rat(2000, 1)>>,
                  high_mid |-> <<Rat(2000, 1), Rat(4000, 1)>>,
                  presence |-> <<Rat(4000, 1), Rat(6000, 1)>>,
                  brilliance |-> <<Rat(6000, 1), top(20000)>>,
                  low |-> <<Rat(20, 1), Rat(200, 1)>>,
                  mid_aggregate |-> <<Rat(200, 1), Rat(4000, 1)>>,
                  high |-> <<Rat(4000, 1), top(16000)>>]
    IN  [b \in BandNames |->
            _bandpass_rms(n_samples, edges[b][1], edges[b][2], sr, hop_length)]

\* signals of at most MaxSamples samples, at sample rates from one whose
\* Nyquist frequency lies below every band to the usual ones, and hops
SampleRates == {100, 8000, DefaultSampleRate, 44100}
HopLengths == {1, 3, 5}
BandCalls ==
    [n_samples : 0..MaxSamples, sr : SampleRates, hop_length : HopLengths]

\* band edges of a single call, in Hz: the edges of the bands, a band above
\* its own top, and a band that starts at 0 Hz
BandEdges ==
    {<<20, 60>>, <<500, 2000>>, <<4000, 6000>>, <<6000, 3900>>, <<6000, 10925>>,
     <<6000, -50>>, <<30, 30>>, <<0, 60>>}

InitAnalyzer ==
    /\ pipe = [p \in Procs |-> AudioPipeline__init__(DefaultArgs)]
    /\ audio \in GoodAudio
    /\ cache = <<>>
    /\ origin = <<>>
    /\ outfile = NoFile
    /\ pc = [p \in Procs |-> "idle"]
    /\ args = [p \in Procs |-> IdleArgs]
    /\ loc = [p \in Procs |-> IdleLoc]
    /\ trace = [p \in Procs |-> <<>>]
    /\ cleared = FALSE
    /\ polisher = Null
    /\ signal \in BandCalls
    /\ output = [of |-> "none"]

\* analyzer._bandpass_rms(y, low_freq, high_freq, sr, hop_length)
CallBandpassRms ==
    /\ output.of = "none"
    /\ \E edges \in BandEdges :
           output' = [of |-> "_bandpass_rms", low_freq |-> edges[1],
                      high_freq |-> edges[2],
                      value |-> _bandpass_rms(signal.n_samples, Rat(edges[1], 1),
                                              Rat(edges[2], 1), signal.sr,
                                              signal.hop_length)]
    /\ UNCHANGED <<polisher, signal>>
    /\ UNCHANGED <<pipe, audio, cache, origin, outfile, pc, args, loc, trace, cleared>>

\* analyzer.extract_energy(decomposed, hop_length): the frame count of the
\* RMS of the signal, which analyze() takes as n_frames, and the bands
CallExtractEnergy ==
    /\ output.of = "none"
    /\ output' = [of |-> "extract_energy",
                  n_frames |-> rms_frames(signal.n_samples, signal.hop_length),
                  frequency_bands |->
                      _extract_frequency_bands(signal.n_samples, signal.sr,
                                               signal.hop_length)]
    /\ UNCHANGED <<polisher, signal>>
    /\ UNCHANGED <<pipe, audio, cache, origin, outfile, pc, args, loc, trace, cleared>>

NextAnalyzer ==
    \/ CallBandpassRms
    \/ CallExtractEnergy

SpecAnalyzer == InitAnalyzer /\ [][NextAnalyzer]_vars

\* ------------------------------------------------------------------ claims
\* the manifest an analysis of the file under the pipeline's settings builds
FreshManifest(self, content) ==
    LET decomposed == decompose_file(self.decomposer, content, self.sample_rate)
        features == analyze(self.analyzer, decomposed)
        polished == polish(self.polisher, features)
    IN  build_manifest(self.exporter, polished, features.bpm, decomposed.duration)

Analysed(p) ==
    Has(p, "decompose") \/ Has(p, "analyze") \/ Has(p, "polish")
        \/ Has(p, "build_manifest")

Returned(p) == pc[p] = "done"
Raised(p) == pc[p] = "raised"

\* the cache file of the call held, when the call started, the complete
\* manifest that a pipeline with the same settings had built and saved
SavedBySame(p) ==
    LET path == _get_cache_path(pipe[p], audio)
    IN  /\ path \in DOMAIN loc[p].cache0
        /\ path \in DOMAIN origin
        /\ origin[path].pipe = pipe[p]
        /\ loc[p].cache0[path] = json_dump(origin[path].manifest)

\* C1: with use_cache=True and no failing file operation, a call that starts
\* with an empty cache and returns has invoked decompose and leaves exactly
\* one cache entry; a following call on the same file by a pipeline with the
\* same settings returns without decompose, analyze or polish, and its
\* manifest equals the manifest the first call built and returned.
C1_CacheRoundTrip ==
    \A p \in Procs :
        (Finished(p) /\ args[p].use_cache /\ Clean(p)) =>
            /\ (Returned(p) /\ DOMAIN loc[p].cache0 = {}) =>
                   /\ Has(p, "decompose")
                   /\ Cardinality(DOMAIN cache) = 1
            /\ SavedBySame(p) =>
                   /\ Returned(p)
                   /\ ~Analysed(p)
                   /\ loc[p].result.manifest =
                          origin[_get_cache_path(pipe[p], audio)].manifest

\* the second of two calls: the cache held one entry, saved by the same
\* settings, and the call was served from it
C1_Witness ==
    \E p \in Procs :
        /\ Returned(p) /\ args[p].use_cache /\ Clean(p)
        /\ SavedBySame(p)
        /\ Cardinality(DOMAIN loc[p].cache0) = 1
        /\ Has(p, "hit")

\* two pipelines differ in a setting that the cache name is derived from
Differ(a, b) ==
    \/ a.target_fps # b.target_fps
    \/ a.sample_rate # b.sample_rate
    \/ a.decomposer.margin # b.decomposer.margin
    \/ a.polisher.impact_envelope # b.polisher.impact_envelope
    \/ a.polisher.energy_envelope # b.polisher.energy_envelope

\* C2: two pipelines that differ in target_fps, sample_rate, hpss_margin, the
\* impact envelope or the energy envelope name different cache files for the
\* same audio file; when one of them processes the file after the other did,
\* it does not hit the other's entry and both files are in the cache.
C2_CacheDifferentiation ==
    \A p \in Procs, q \in Procs :
        Differ(pipe[p], pipe[q]) =>
            /\ \A c \in AudioContents :
                   _get_cache_path(pipe[p], c) # _get_cache_path(pipe[q], c)
            /\ ( /\ Returned(p) /\ args[p].use_cache /\ Clean(p)
                 /\ _get_cache_path(pipe[q], audio) \in DOMAIN loc[p].cache0
                 /\ _get_cache_path(pipe[p], audio) \notin DOMAIN loc[p].cache0 ) =>
                   /\ ~Has(p, "hit")
                   /\ Has(p, "decompose")
                   /\ {_get_cache_path(pipe[p], audio),
                       _get_cache_path(pipe[q], audio)} \subseteq DOMAIN cache
                   /\ Cardinality(DOMAIN cache) = Cardinality(DOMAIN loc[p].cache0) + 1

C2_Witness ==
    \E p \in Procs, q \in Procs :
        /\ Differ(pipe[p], pipe[q])
        /\ Returned(p) /\ args[p].use_cache /\ Clean(p)
        /\ _get_cache_path(pipe[q], audio) \in DOMAIN loc[p].cache0
        /\ Cardinality(DOMAIN cache) = 2

\* C3: a manifest served from the cache is the manifest that an analysis
\* under the pipeline's current settings would build.
C3_CacheInvalidation ==
    \A p \in Procs :
        (Returned(p) /\ Has(p, "hit") /\ CanAnalyze(pipe[p].analyzer)) =>
            loc[p].result.manifest = FreshManifest(pipe[p], audio)

\* the phases of an analysis from decompose up to the cache write
MissPhases(uc) ==
    <<"decompose", "analyze", "polish", "build_manifest">>
        \o (IF uc THEN <<"cache_write">> ELSE <<>>)

IsPrefix(a, b) == Len(a) <= Len(b) /\ a = SubSeq(b, 1, Len(a))

\* the complete result dictionary of an analysis of the current file
FreshResult(p) ==
    /\ loc[p].result.manifest = FreshManifest(pipe[p], audio)
    /\ loc[p].result.bpm = RawBpm(audio)
    /\ loc[p].result.duration = loc[p].decomposed.duration
    /\ loc[p].result.n_frames = loc[p].result.manifest.metadata.n_frames
    /\ loc[p].result.fps = pipe[p].target_fps

\* C4: when the cache file of the call exists but cannot be parsed, the call
\* runs decompose, analyze, polish, build manifest and the cache write in
\* this order; it raises only where a call without a cache would raise
\* (undecodable audio, a failing analysis, an unwritable output path), and
\* when it returns the result is the freshly computed one.
C4_CorruptCacheAbsorbed ==
    \A p \in Procs :
        Has(p, "cache_error") =>
            /\ pc[p] # "cache_read"
            /\ trace[p][1] = "cache_error"
            /\ IsPrefix(SubSeq(trace[p], 2, Len(trace[p])),
                        MissPhases(TRUE) \o <<IF Raised(p) THEN "export_error"
                                              ELSE "export">>)
            /\ Raised(p) =>
                   \/ ~CanDecode(audio) /\ loc[p].error = "DecodeError"
                   \/ ~CanAnalyze(pipe[p].analyzer) /\ loc[p].error = "TypeError"
                   \/ args[p].output_path = "unwritable" /\ loc[p].error = "OSError"
            /\ Returned(p) =>
                   /\ IsPrefix(MissPhases(TRUE), SubSeq(trace[p], 2, Len(trace[p])))
                   /\ FreshResult(p)

C4_Witness ==
    \E p \in Procs : Returned(p) /\ Has(p, "cache_error") /\ FreshResult(p)

\* C5: when the cache write fails after a successful analysis, the call
\* still returns the complete result and performs the requested export; it
\* raises only if the export itself fails.
C5_CacheWriteFailureAbsorbed ==
    \A p \in Procs :
        loc[p].wfault =>
            /\ pc[p] \in {"export", "done", "raised"}
            /\ Raised(p) => (args[p].output_path = "unwritable"
                             /\ Has(p, "export_error"))
            /\ Returned(p) =>
                   /\ FreshResult(p)
                   /\ args[p].output_path = "out" =>
                          /\ Has(p, "export")
                          /\ outfile = export(pipe[p], loc[p], args[p].format)
                          /\ loc[p].result.output_path = "out"
                   /\ args[p].output_path = "none" =>
                          loc[p].result.output_path = "none"

C5_Witness ==
    \E p \in Procs :
        /\ Returned(p) /\ loc[p].wfault /\ args[p].output_path = "out"
        /\ outfile.kind # "absent" /\ FreshResult(p)

\* the events of the cache lookup that precede an analysis
LookupEvents == {"miss", "cache_error"}

\* C6: a call that misses the cache runs decompose, analyze, polish, build
\* manifest, cache write and the optional export in this order, each at most
\* once; a call that hits the cache finishes without decompose, analyze,
\* polish or build manifest; no phase is run twice.
C6_PhaseOrder ==
    \A p \in Procs :
        LET t == trace[p]
            head == IF t # <<>> /\ t[1] \in LookupEvents THEN 1 ELSE 0
            rest == SubSeq(t, head + 1, Len(t))
        IN  /\ Has(p, "hit") => ~Analysed(p)
            /\ ~Has(p, "hit") =>
                   IsPrefix(rest, MissPhases(args[p].use_cache)
                                      \o <<IF Raised(p) THEN "export_error"
                                           ELSE "export">>)
            /\ \A i \in 1..Len(t), j \in 1..Len(t) : t[i] = t[j] => i = j

\* C7: when decompose or analyze raises, the call ends with that exception,
\* returns no result, and has changed neither the cache nor the output file.
C7_AnalysisFailurePropagates ==
    \A p \in Procs :
        /\ (Has(p, "decompose") /\ ~CanDecode(audio)) =>
               (Raised(p) /\ loc[p].error = "DecodeError")
        /\ (Has(p, "analyze") /\ ~CanAnalyze(pipe[p].analyzer)) =>
               (Raised(p) /\ loc[p].error = "TypeError")
        /\ (Raised(p) /\ loc[p].error \in {"DecodeError", "TypeError"}) =>
               /\ cache = loc[p].cache0
               /\ outfile.kind = "absent"

\* a failing decompose after a corrupt cache entry was found, and a failing
\* analyze
C7_Witness ==
    \E p \in Procs :
        /\ Raised(p) /\ loc[p].error \in {"DecodeError", "TypeError"}
        /\ args[p].use_cache /\ args[p].output_path = "out"
        /\ DOMAIN cache # {}

\* C8: a cache hit with a writable output_path writes the cached manifest
\* there, returns the path in the result, and runs no analysis.
C8_HitExport ==
    \A p \in Procs :
        (Finished(p) /\ Has(p, "hit") /\ args[p].output_path = "out") =>
            /\ Returned(p)
            /\ ~Analysed(p)
            /\ outfile.kind = "json"
            /\ outfile.text = cache[loc[p].cache_path]
            /\ json_load(outfile.text) = loc[p].result.manifest
            /\ loc[p].result.output_path = "out"

C8_Witness ==
    \E p \in Procs :
        /\ Returned(p) /\ Has(p, "hit") /\ args[p].output_path = "out"
        /\ outfile.kind = "json"

\* C9: after a call that returns with a writable output_path, the file holds
\* a NumPy archive for format "numpy" and a JSON manifest for format "json",
\* on a cache miss and on a cache hit.
C9_OutputFormat ==
    \A p \in Procs :
        (Returned(p) /\ args[p].output_path = "out") =>
            /\ args[p].format = "numpy" => outfile.kind = "npz"
            /\ args[p].format = "json" => outfile.kind = "json"

\* C10: a call with use_cache=False never looks up, reads or writes the
\* cache: the cache is as it was when the call started, and when the call
\* ends decompose was invoked, also when a valid entry exists.
C10_NoCacheBypass ==
    \A p \in Procs :
        (pc[p] # "idle" /\ ~args[p].use_cache) =>
            /\ cache = loc[p].cache0
            /\ pc[p] \notin {"lookup", "cache_read", "hit_export", "cache_write"}
            /\ \A e \in {"hit", "miss", "cache_error", "cache_write", "hit_export"} :
                   ~Has(p, e)
            /\ Finished(p) => Has(p, "decompose")

C10_Witness ==
    \E p \in Procs :
        /\ Returned(p) /\ ~args[p].use_cache
        /\ _get_cache_path(pipe[p], audio) \in DOMAIN cache
        /\ CanParse(cache[_get_cache_path(pipe[p], audio)])

\* C11: after clear_cache() the cache directory holds no entry, whatever it
\* held before; a call with use_cache=True that follows finds no file under
\* its name, records a miss and invokes decompose.
C11_ClearCache ==
    cleared =>
        /\ DOMAIN cache = {}
        /\ \A p \in Procs :
               (pc[p] \notin {"idle", "lookup"} /\ args[p].use_cache) =>
                   /\ trace[p][1] = "miss"
                   /\ pc[p] = "decompose" \/ Has(p, "decompose")

\* the cache was cleared and the call that followed ran the analysis up to
\* the cache write
C11_Witness ==
    /\ cleared
    /\ \E p \in Procs :
           /\ pc[p] = "cache_write" /\ Has(p, "miss") /\ Has(p, "decompose")
           /\ DOMAIN loc[p].cache0 = {}

\* C12: two calls with the same cache key that run concurrently: a call that
\* returns, returns the complete manifest of the file (from the cache or
\* from its own analysis), no call raises, and whenever no call is inside
\* process() the cache file is absent (no call has run) or holds exactly the
\* complete manifest.
C12_ConcurrentSameKey ==
    LET path == _get_cache_path(pipe[1], audio)
        complete == FreshManifest(pipe[1], audio)
    IN  /\ \A p \in Procs :
               /\ ~Raised(p)
               /\ Returned(p) => loc[p].result.manifest = complete
        /\ (\A p \in Procs : pc[p] \in {"idle", "done"}) =>
               /\ DOMAIN cache \subseteq {path}
               /\ (\E p \in Procs : Returned(p)) => path \in DOMAIN cache
               /\ path \in DOMAIN cache => cache[path] = json_dump(complete)

\* both calls ran the analysis, one of them after it found the half-written
\* file of the other, and both have returned
C12_Witness ==
    /\ \A p \in Procs : Returned(p) /\ Has(p, "decompose")
    /\ \E p \in Procs : Has(p, "cache_error")
    /\ cache[_get_cache_path(pipe[1], audio)] =
           json_dump(FreshManifest(pipe[1], audio))

\* the continuous fields of PolishedFeatures
ContinuousFields ==
    {"percussive_impact", "harmonic_energy", "global_energy", "spectral_flux",
     "sub_bass", "bass", "low_mid", "mid", "high_mid", "presence", "brilliance",
     "low_energy", "mid_energy", "high_energy", "spectral_brightness",
     "spectral_flatness", "spectral_rolloff", "zero_crossing_rate"}

InUnit(x) == RLeq(Zero, x) /\ RLeq(x, One)

\* C13: every value of every continuous field that polish() returns, and
\* every value of each of the 12 chroma rows, lies in [0,1], whatever the raw
\* values and the attack and release settings.
C13_BoundedOutputs ==
    (output.of = "polish" /\ output.error = "") =>
        /\ \A f \in ContinuousFields :
               /\ Len(output.value[f]) = Len(signal.values)
               /\ \A i \in 1..Len(signal.values) : InUnit(output.value[f][i])
        /\ \A r \in 1..12, i \in 1..Len(signal.values) :
               InUnit(output.value.chroma[r][i])

\* raw values below 0 and at most 1, smoothed with a release of several
\* frames: some polished value lies strictly inside (0,1)
C13_Witness ==
    /\ output.of = "polish" /\ output.error = ""
    /\ \E i \in 1..Len(signal.values) : RLess(signal.values[i], Zero)
    /\ \E i \in 1..Len(signal.values) :
           /\ RLess(Zero, output.value.global_energy[i])
           /\ RLess(output.value.global_energy[i], One)
    /\ \E i \in 1..Len(signal.values) : output.value.chroma[12][i] = One

\* C14: normalize(signal, floor) returns an array of the length of the
\* signal, every value a number in [0,1]; when max - min < floor, and for
\* every constant signal, all values are 0; otherwise every minimum of the
\* signal maps to 0 and every maximum to 1.
C14_Normalize ==
    output.of = "normalize" =>
        LET arr == signal.values
            n == Len(arr)
            flat == \A i \in 1..n, j \in 1..n :
                        RLess(RSub(arr[i], arr[j]), output.floor)
            constant == \A i \in 1..n : arr[i] = arr[1]
        IN  /\ Len(output.value) = n
            /\ \A i \in 1..n : output.value[i][2] > 0 /\ InUnit(output.value[i])
            /\ (flat \/ constant) => \A i \in 1..n : output.value[i] = Zero
            /\ ~flat => \A i \in 1..n :
                   /\ (\A j \in 1..n : RLeq(arr[i], arr[j])) => output.value[i] = Zero
                   /\ (\A j \in 1..n : RLeq(arr[j], arr[i])) => output.value[i] = One

\* a signal that varies, but by less than the floor, normalized to zeros
C14_Witness ==
    /\ output.of = "normalize"
    /\ \E i \in 1..Len(signal.values) : signal.values[i] # signal.values[1]
    /\ \A i \in 1..Len(signal.values), j \in 1..Len(signal.values) :
           RLess(RSub(signal.values[i], signal.values[j]), output.floor)
    /\ \A i \in 1..Len(signal.values) : output.value[i] = Zero

\* the smoothed value before frame i
Previous(arr, i) == IF i = 1 THEN Zero ELSE arr[i - 1]

Normalized(arr) == \A i \in 1..Len(arr) : InUnit(arr[i])

\* C15: with attack_ms = 0 and an input in [0,1], at every frame whose input
\* exceeds the previous smoothed value the output equals the input (an input
\* of 1 gives an output of exactly 1), and at every frame the output is at
\* least the input.
C15_InstantAttack ==
    (output.of = "apply_envelope" /\ output.params[1] = 0
        /\ Normalized(signal.values)) =>
        \A i \in 1..Len(signal.values) :
            /\ RLess(Previous(output.value, i), signal.values[i]) =>
                   output.value[i] = signal.values[i]
            /\ RLeq(signal.values[i], output.value[i])

\* a rise from 1/2 to 1 that the output follows at once, after a fall that
\* it follows slowly
C15_Witness ==
    /\ output.of = "apply_envelope" /\ output.params[1] = 0
    /\ Normalized(signal.values)
    /\ \E i \in 2..Len(signal.values) :
           /\ signal.values[i] = One /\ output.value[i] = One
           /\ signal.values[i - 1] = Rat(1, 2)
           /\ RLess(Rat(1, 2), output.value[i - 1])

\* the signal is an impulse to 1.0 at frame j, zero before and after
Impulse(arr, j) ==
    /\ j \in 1..Len(arr)
    /\ \A i \in 1..Len(arr) : arr[i] = (IF i = j THEN One ELSE Zero)

\* C16: with a release of k >= 2 frames (30 frames for release_ms = 500 at
\* 60 fps), after an impulse to 1.0 followed by zero input the output at each
\* following frame is positive, strictly smaller than at the frame before,
\* and equal to the output of the frame before times (1 - 1/k).
C16_SlowRelease ==
    output.of = "apply_envelope" =>
        LET k == _ms_to_frames(polisher, output.params[2] * 100)
        IN  /\ (polisher.fps = 60 /\ output.params[2] = 500) => k = 30
            /\ k >= 2 =>
                 \A j \in 1..Len(signal.values) :
                     Impulse(signal.values, j) =>
                         /\ output.params[1] = 0 => output.value[j] = One
                         /\ \A i \in (j + 1)..Len(signal.values) :
                                /\ RLess(Zero, output.value[i])
                                /\ RLess(output.value[i], output.value[i - 1])
                                /\ output.value[i] =
                                       RMul(output.value[i - 1],
                                            RSub(One, Rat(1, k)))

\* release_ms = 500 at 60 fps: two frames after the impulse the output is
\* (29/30)^2
C16_Witness ==
    /\ output.of = "apply_envelope"
    /\ polisher.fps = 60 /\ output.params = <<0, 500>>
    /\ Impulse(signal.values, 1)
    /\ Len(signal.values) >= 3
    /\ output.value[3] = Rat(841, 900)

\* Python's round(a / b) for a >= 0 and b > 0: to the nearest integer, a tie
\* to the even one
RoundDiv(a, b) ==
    LET q == a \div b
        r == a % b
    IN  IF 2 * r > b \/ (2 * r = b /\ q % 2 = 1) THEN q + 1 ELSE q

\* C17: _ms_to_frames(ms) equals max(1, round(ms / 1000 * fps)).
C17_MsToFramesRounded ==
    output.of = "_ms_to_frames" =>
        output.value = Max(1, RoundDiv(output.ms * polisher.fps, 1000))

\* the call has the features of its analysis
HasFeatures(p) == pc[p] = "polish" \/ Has(p, "polish")

\* C18: the hop length of an analysis is round(sample_rate / target_fps),
\* and the analysis counts its frames with it.
C18_HopLengthRounded ==
    \A p \in Procs :
        HasFeatures(p) =>
            /\ loc[p].features.hop_length =
                   RoundDiv(loc[p].decomposed.sample_rate, pipe[p].analyzer.target_fps)
            /\ loc[p].features.n_frames =
                   (loc[p].decomposed.n_samples \div loc[p].features.hop_length) + 1

\* C18 as amended: the hop length of an analysis is sample_rate / target_fps
\* rounded down, and the analysis counts its frames with it.
C18_HopLengthTruncated ==
    \A p \in Procs :
        HasFeatures(p) =>
            LET hop == loc[p].features.hop_length
                sr == loc[p].decomposed.sample_rate
                fps == pipe[p].analyzer.target_fps
            IN  /\ hop * fps <= sr
                /\ sr < (hop + 1) * fps
                /\ loc[p].features.n_frames = (loc[p].decomposed.n_samples \div hop) + 1
                /\ Has(p, "build_manifest") =>
                       \A i \in 1..Len(loc[p].manifest.frames) :
                           loc[p].manifest.frames[i].drivers.hop_length = hop

\* 22050 Hz at 60 fps: 367.5 samples per frame, a hop of 367
C18_Witness ==
    \E p \in Procs :
        /\ HasFeatures(p) /\ Has(p, "build_manifest")
        /\ loc[p].decomposed.sample_rate = DefaultSampleRate
        /\ pipe[p].analyzer.target_fps = DefaultFps
        /\ loc[p].features.hop_length = 367

\* C19: create_beat_array and create_onset_array return an array of n_frames
\* booleans that is True exactly at the events inside 0..n_frames-1; an event
\* outside is dropped: it marks no frame and raises no error.
C19_EventArrays ==
    output.of \in {"create_beat_array", "create_onset_array"} =>
        /\ output.value.error = ""
        /\ Len(output.value.array) = Len(signal.values)
        /\ \A i \in 1..Len(signal.values) :
               output.value.array[i] <=> (i - 1) \in signal.beat_frames

\* the tempo the scaling counts with, in units of 10^-5 bpm: 120 for none,
\* at least 1
CountedBpm(bpm) == IF bpm = 0 THEN 12000000 ELSE Max(bpm, 100000)

\* release_ms * 120 / bpm with the factor held within [0.5, 2.0], in
\* hundredths of a millisecond
ClampedRelease(release_ms, bpm) ==
    LET scaled == (release_ms * 1200000) \div (CountedBpm(bpm) \div 1000)
    IN  Max(release_ms * 50, IF scaled > release_ms * 200 THEN release_ms * 200
                             ELSE scaled)

\* what C20 says of the envelope `used` that polish() smoothed with, given
\* the configured one
AdaptedAsClaimed(configured, used) ==
    /\ used[1] = configured[1] * 100
    /\ used[2] = IF polisher.adaptive_envelopes
                 THEN ClampedRelease(configured[2], signal.bpm)
                 ELSE configured[2] * 100
    /\ configured[2] * 50 <= used[2] /\ used[2] <= configured[2] * 200
    /\ \A faster \in BpmValues :
           CountedBpm(faster) >= CountedBpm(signal.bpm) =>
               ScaledRelease(polisher, configured[2], faster) <= used[2]

\* C20: polish() with adaptive envelopes smooths with release_ms * s, where
\* s = 120 / bpm held within [0.5, 2.0] (a bpm below 1 counts as 1, none or
\* zero as 120): the release is between half and twice the configured one
\* and does not grow with the tempo; the attack is the configured one, and
\* the call leaves the polisher's own envelopes as they were.
C20_AdaptiveRelease ==
    [][ (output.of = "none" /\ output'.of = "polish") =>
          /\ polisher' = polisher
          /\ output'.error = "" =>
                /\ AdaptedAsClaimed(polisher.impact_envelope, output'.impact_env)
                /\ AdaptedAsClaimed(polisher.energy_envelope, output'.energy_env)
                /\ output'.value.percussive_impact =
                       apply_envelope(polisher,
                                      normalize(signal.values, Rat(1, 1000)),
                                      <<polisher.impact_envelope[1] * 100,
                                        IF polisher.adaptive_envelopes
                                        THEN ClampedRelease(polisher.impact_envelope[2],
                                                            signal.bpm)
                                        ELSE polisher.impact_envelope[2] * 100>>) ]_vars

\* a slow tempo doubles the release, and the polisher is as it was built
C20_Witness ==
    /\ output.of = "polish" /\ output.error = ""
    /\ polisher.adaptive_envelopes
    /\ signal.bpm = 4500000
    /\ polisher = SignalPolisher__init__(60, NoEnvelope, NoEnvelope, TRUE)
    /\ output.impact_env = <<0, 40000>>
    /\ output.energy_env = <<5000, 60000>>

\* C21: the manifest a call has built holds exactly polished.n_frames frame
\* records, in order, the record at position i (counted from 0) carrying
\* frame_index = i, and metadata.n_frames is the length of the frames list
C21_FramesInOrder ==
    \A p \in Procs :
        Has(p, "build_manifest") =>
            LET manifest == loc[p].manifest
            IN  /\ Len(manifest.frames) = loc[p].polished.n_frames
                /\ \A i \in 0..(loc[p].polished.n_frames - 1) :
                       manifest.frames[i + 1].frame_index = i
                /\ manifest.metadata.n_frames = Len(manifest.frames)

\* a call has built a manifest of several frames
C21_Witness ==
    \E p \in Procs :
        /\ Has(p, "build_manifest")
        /\ loc[p].polished.n_frames > 1
        /\ Len(loc[p].manifest.frames) > 1

\* C22: every frame of a manifest built from polished features whose
\* continuous values lie in [0, 1], whatever the dominant chroma index, has
\* the six primitives within [0, 1], with impact, fluidity and brightness
\* the frame's percussive_impact, harmonic_energy and spectral_brightness,
\* pitch_hue the position of the dominant note among the twelve names from
\* C divided by 11, texture the mean of spectral_flatness,
\* zero_crossing_rate, presence and brilliance, sharpness the mean of
\* spectral_flux and spectral_rolloff; dominant_chroma is one of the names
C22_Primitives ==
    output.of = "to_dict" =>
        \A i \in 1..Len(output.value.frames) :
            LET frame == output.value.frames[i]
                idx == signal.dominant_chroma_indices[i]
            IN  /\ \A f \in {"impact", "fluidity", "brightness", "pitch_hue",
                              "texture", "sharpness"} :
                       f \in DOMAIN frame /\ InUnit(frame[f])
                /\ frame.impact = frame.percussive_impact
                /\ frame.fluidity = frame.harmonic_energy
                /\ frame.brightness = frame.spectral_brightness
                /\ \E n \in 0..11 :
                       /\ n - idx \in {12 * k : k \in -3..3}
                       /\ frame.dominant_chroma = CHROMA_NAMES[n + 1]
                       /\ frame.pitch_hue = Rat(n, 11)
                /\ RMul(frame.texture, Rat(4, 1)) =
                       RAdd(RAdd(frame.spectral_flatness, frame.zero_crossing_rate),
                            RAdd(frame.presence, frame.brilliance))
                /\ RMul(frame.sharpness, Rat(2, 1)) =
                       RAdd(frame.spectral_flux, frame.spectral_rolloff)

\* a manifest of two frames was built for an index below the twelve bins,
\* the four terms of the texture differing
C22_Witness ==
    /\ output.of = "to_dict"
    /\ Len(output.value.frames) = 2
    /\ signal.dominant_chroma_indices[1] < 0
    /\ output.value.frames[1].dominant_chroma = "B"
    /\ output.value.frames[1].pitch_hue = One
    /\ output.value.frames[1].spectral_flatness # output.value.frames[1].brilliance
    /\ output.value.frames[1].spectral_flux # output.value.frames[1].spectral_rolloff
    /\ output.value.frames[1].brilliance # signal.brilliance[1]

\* C23: target_fps=None counts as 60 everywhere: no analyzer holds a missing
\* frame rate, the pipeline, its analyzer and its polisher hold the same one,
\* the hop of an analysis is the sample rate divided by it, rounded down,
\* and a returned result's fps is the fps of its manifest's metadata
C23_NoneIsSixty ==
    \A p \in Procs :
        /\ pipe[p].analyzer.target_fps # NoneFps
        /\ pipe[p].analyzer.target_fps = pipe[p].target_fps
        /\ pipe[p].polisher.fps = pipe[p].target_fps
        /\ HasFeatures(p) =>
               loc[p].features.hop_length =
                   loc[p].features.sample_rate \div pipe[p].target_fps
        /\ Returned(p) => loc[p].result.fps = loc[p].result.manifest.metadata.fps

\* a raw stream of the call, normalized and then followed with an envelope
Smoothed(arr, env) == apply_envelope(polisher, normalize(arr, Rat(1, 1000)), env)

\* the spectral centroid of the call on the brightness scale, not yet smoothed
RawBrightness ==
    LET centroid == ExtractedFeatures(signal).spectral_centroid
    IN  [i \in 1..Len(centroid) |->
            Clip(RDiv(RSub(centroid[i], Rat(100, 1)), Rat(9900, 1)))]

ImpactStreams == {"percussive_impact", "spectral_flux", "sub_bass"}

EnergyStreams ==
    {"harmonic_energy", "global_energy", "bass", "low_mid", "mid", "high_mid",
     "presence", "brilliance", "low_energy", "mid_energy", "high_energy",
     "spectral_flatness", "spectral_rolloff", "zero_crossing_rate"}

\* C24: polish() smooths rms_percussive, spectral_flux and sub_bass with the
\* impact envelope of the call, rms, rms_harmonic, the other bands,
\* flatness, rolloff and zero-crossing rate with its energy envelope,
\* the brightness with the energy envelope (as adapted or as configured),
\* and only normalizes the twelve chroma rows
C24_EnvelopeRouting ==
    (output.of = "polish" /\ output.error = "") =>
        /\ \A f \in ImpactStreams :
               output.value[f] = Smoothed(signal.values, output.impact_env)
        /\ \A f \in EnergyStreams :
               output.value[f] = Smoothed(signal.values, output.energy_env)
        /\ output.value.spectral_brightness \in
               { apply_envelope(polisher, RawBrightness, output.energy_env),
                 apply_envelope(polisher, RawBrightness,
                                CentiMs(polisher.energy_envelope)) }
        /\ \A r \in 1..12 :
               output.value.chroma[r] = normalize(signal.values, Rat(1, 1000))

\* C25: with adaptive envelopes every stream polish() smooths is smoothed
\* with a release scaled by the tempo: the energy streams, the brightness
\* included, with the scaled energy envelope, the impact streams with the
\* scaled impact envelope (the sub-bass with either)
C25_AdaptiveEverywhere ==
    (output.of = "polish" /\ output.error = "" /\ polisher.adaptive_envelopes) =>
        /\ \A f \in ImpactStreams \ {"sub_bass"} :
               output.value[f] = Smoothed(signal.values, output.impact_env)
        /\ \A f \in EnergyStreams :
               output.value[f] = Smoothed(signal.values, output.energy_env)
        /\ output.value.sub_bass \in
               { Smoothed(signal.values, output.impact_env),
                 Smoothed(signal.values, output.energy_env) }
        /\ output.value.spectral_brightness =
               apply_envelope(polisher, RawBrightness, output.energy_env)

\* the normalized band edges of the call collapse: low / nyquist is at
\* least min(high / nyquist, 0.99)
Collapsed ==
    \/ output.low_freq >= output.high_freq
    \/ 200 * output.low_freq >= 99 * signal.sr

\* C26: _bandpass_rms with positive sample rate, hop length and band edges
\* never raises; when the normalized edges collapse it returns zeros without
\* filtering, floor(len(y) / hop_length) + 1 of them, which is the frame
\* count of the RMS of the same signal; and every band that extract_energy
\* returns has as many elements as the RMS that gives n_frames
C26_BandLengths ==
    /\ (output.of = "_bandpass_rms" /\ output.low_freq > 0 /\ output.high_freq > 0) =>
           /\ output.value.error = ""
           /\ output.value.filtered = ~Collapsed
           /\ output.value.length = (signal.n_samples \div signal.hop_length) + 1
    /\ output.of = "extract_energy" =>
           \A b \in BandNames :
               /\ output.frequency_bands[b].error = ""
               /\ output.frequency_bands[b].length = output.n_frames

\* a collapsed band returned zeros for a signal of several hops
C26_Witness ==
    /\ output.of = "_bandpass_rms"
    /\ output.low_freq > 0 /\ output.high_freq > 0
    /\ Collapsed
    /\ ~output.value.filtered
    /\ signal.n_samples = 7 /\ signal.hop_length = 3
    /\ output.value.length = 3

\* C27: every complete cache file named after the digest of some bytes holds
\* the manifest of an analysis of those bytes, also when the audio file is
\* replaced while a call is running
C27_KeyOfAnalysedBytes ==
    \A path \in DOMAIN cache, c \in AudioContents :
        (path[2] = _calculate_file_hash(c) /\ CanParse(cache[path])) =>
            LET manifest == json_load(cache[path])
            IN  /\ CanDecode(c)
                /\ \A i \in 1..Len(manifest.frames) :
                       manifest.frames[i].drivers.content = c

\* C28: a result served from the cache equals, in manifest, bpm, duration,
\* n_frames and fps, the result of the call that analysed the same file with
\* the same settings and saved the entry
C28_HitEqualsMiss ==
    \A p \in Procs :
        (Returned(p) /\ Has(p, "hit") /\ SavedBySame(p)) =>
            LET path == _get_cache_path(pipe[p], audio)
                saved == origin[path]
                decomposed == decompose_file(saved.pipe.decomposer, audio,
                                             saved.pipe.sample_rate)
                features == analyze(saved.pipe.analyzer, decomposed)
            IN  /\ loc[p].result.manifest = saved.manifest
                /\ loc[p].result.bpm = features.bpm
                /\ loc[p].result.duration = decomposed.duration
                /\ loc[p].result.n_frames = features.n_frames
                /\ loc[p].result.fps = saved.pipe.target_fps

\* C29: the cache heals itself: with no further failing file operation, a
\* call that found its cache file corrupt and analysed again has replaced
\* the file by the manifest it built, and a later call on the same file by
\* the same settings that starts from such a healed entry is a hit,
\* returns that manifest and does not invoke decompose
C29_CacheHeals ==
    \A p \in Procs :
        /\ (Has(p, "cache_error") /\ Has(p, "cache_write") /\ ~loc[p].wfault
                /\ pc[p] \in {"export", "done", "raised"}) =>
               LET path == loc[p].cache_path
               IN  /\ path \in DOMAIN loc[p].cache0
                   /\ ~CanParse(loc[p].cache0[path])
                   /\ Has(p, "build_manifest")
                   /\ Exists(path)
                   /\ cache[path] = json_dump(loc[p].manifest)
                   /\ CanParse(cache[path])
        /\ (Finished(p) /\ args[p].use_cache /\ Clean(p) /\ SavedBySame(p)
                /\ origin[_get_cache_path(pipe[p], audio)].healed) =>
               /\ Returned(p)
               /\ Has(p, "hit")
               /\ ~Has(p, "decompose")
               /\ loc[p].result.manifest =
                      origin[_get_cache_path(pipe[p], audio)].manifest

\* a call was served from an entry that an earlier call had healed
C29_Witness ==
    \E p \in Procs :
        /\ Returned(p) /\ args[p].use_cache /\ Clean(p)
        /\ SavedBySame(p)
        /\ origin[_get_cache_path(pipe[p], audio)].healed
        /\ Has(p, "hit") /\ ~Has(p, "decompose")

\* C30: a call that loaded a valid cache entry and cannot write the
\* requested output path runs none of decompose, analyze, polish or build
\* manifest, and ends by raising the error of the write
C30_HitWriteErrorReported ==
    \A p \in Procs :
        (Has(p, "hit") /\ args[p].output_path = "unwritable") =>
            /\ ~Analysed(p)
            /\ pc[p] \in {"hit_export", "raised"}
            /\ Raised(p) => loc[p].error = "OSError"

====
